---- MODULE Spec2Model ----
(***************************************************************************)
(* A model of the CHIP-8 interpreter: the Cpu aggregate (cpu.rs), the      *)
(* instruction decoder and the opcode handlers (opcode.rs), the keyboard   *)
(* (keyboard.rs) and the host loop that drives them (main.rs).             *)
(*                                                                         *)
(* The Cpu struct is one record-valued variable whose fields carry the     *)
(* names of the struct's fields.  An opcode handler fn(&OpCodeArgs, &mut   *)
(* Cpu) is an operator from (args, cpu) to the mutated cpu, or to a Panic  *)
(* value when the handler panics before returning.                         *)
(*                                                                         *)
(* The two large arrays are kept by their non-default elements: memory     *)
(* ([u8; MEMORY_LENGTH]) is the function from the addresses that hold a    *)
(* non-zero byte to that byte, read with MemRead and written with          *)
(* MemWrite; vram ([[bool; 64]; 32]) is the set of the <<y, x>> whose      *)
(* pixel is true.  Both encodings are canonical: two arrays are equal      *)
(* exactly when their encodings are.                                       *)
(***************************************************************************)
EXTENDS Integers, Sequences, FiniteSets, TLC

VARIABLES
    cpu,        \* the Cpu struct (every field but last_timer_decrease)
    elapsed,    \* ms between cpu.last_timer_decrease and the last SystemTime::now() read
    host,       \* position of main's loop: "step", "poll" or "exited"
    ret,        \* outcome of the last fetch_and_execute: "none", "true", "false", "panic"
    panic,      \* the message of the panic that ended the run, "" if none
    draw_calls, \* number of display.draw_screen calls made by the last step
    texture     \* the pixels display.draw_screen last copied from cpu.vram

vars == <<cpu, elapsed, host, ret, panic, draw_calls, texture>>

----------------------------------------------------------------------------
(* Program constants                                                       *)

MEMORY_LENGTH == \hFFF
STACK_LENGTH == \h10
NUM_REGISTERS == \h10
FONT_SET_START_ADDR == \h000
USER_PROGRAM_START_ADDR == \h200
VIRTUAL_DISPLAY_WIDTH == 64
VIRTUAL_DISPLAY_HEIGHT == 32
INSTR_SIZE == 2
NUM_KEYS == 16
\* Duration::new(0, 16_666_666): the tick fires when strictly more than this
\* has elapsed; in whole milliseconds that is "more than 16".
TIMER_PERIOD_MS == 16

FONT_SET ==
    << \hF0, \h90, \h90, \h90, \hF0,
       \h20, \h60, \h20, \h20, \h70,
       \hF0, \h10, \hF0, \h80, \hF0,
       \hF0, \h10, \hF0, \h10, \hF0,
       \h90, \h90, \hF0, \h10, \h10,
       \hF0, \h80, \hF0, \h10, \hF0,
       \hF0, \h80, \hF0, \h90, \hF0,
       \hF0, \h10, \h20, \h40, \h40,
       \hF0, \h90, \hF0, \h90, \hF0,
       \hF0, \h90, \hF0, \h10, \hF0,
       \hF0, \h90, \hF0, \h90, \h90,
       \hE0, \h90, \hE0, \h90, \hE0,
       \hF0, \h80, \h80, \h80, \hF0,
       \hE0, \h90, \h90, \h90, \hE0,
       \hF0, \h80, \hF0, \h80, \hF0,
       \hF0, \h80, \hF0, \h80, \h80 >>

----------------------------------------------------------------------------
(* Machine arithmetic                                                      *)

U8 == 256

\* a & b on unsigned integers, bit by bit
RECURSIVE BitAnd(_, _)
BitAnd(a, b) ==
    IF a = 0 \/ b = 0 THEN 0
    ELSE (a % 2) * (b % 2) + 2 * BitAnd(a \div 2, b \div 2)

\* a | b
RECURSIVE BitOr(_, _)
BitOr(a, b) ==
    IF a = 0 THEN b
    ELSE IF b = 0 THEN a
    ELSE (IF a % 2 = 1 \/ b % 2 = 1 THEN 1 ELSE 0) + 2 * BitOr(a \div 2, b \div 2)

\* a ^ b
RECURSIVE BitXor(_, _)
BitXor(a, b) ==
    IF a = 0 THEN b
    ELSE IF b = 0 THEN a
    ELSE (((a % 2) + (b % 2)) % 2) + 2 * BitXor(a \div 2, b \div 2)

\* a >> k
Shr(a, k) == a \div (2 ^ k)

\* u8::overflowing_add: the wrapped sum and whether it wrapped
u8_overflowing_add(a, b) ==
    [value |-> (a + b) % U8, flag |-> a + b >= U8]

\* A subtraction that also reports a borrow when the operands are equal
u8_sub_borrow_on_equal(a, b) ==
    [value |-> (a - b + U8) % U8, flag |-> a <= b]

\* u8::overflowing_sub: the wrapped difference and whether it wrapped
u8_overflowing_sub(a, b) ==
    [value |-> (a - b + U8) % U8, flag |-> a < b]

\* usize::overflowing_add.  usize is the target's pointer width (at least 32
\* bits); the operands the model reaches stay far below 2^31, so the sum never
\* wraps and the flag is false.
usize_overflowing_add(a, b) ==
    [value |-> a + b, flag |-> FALSE]

\* memory[addr] and memory[addr] = v, for an addr inside the array
MemRead(memory, addr) == IF addr \in DOMAIN memory THEN memory[addr] ELSE 0
MemWrite(memory, addr, v) ==
    IF v = 0 THEN [a \in DOMAIN memory \ {addr} |-> memory[a]]
    ELSE [a \in DOMAIN memory \cup {addr} |-> IF a = addr THEN v ELSE memory[a]]

\* vram[y][x] and vram[y][x] = b
Pixel(vram, y, x) == <<y, x>> \in vram
SetPixel(vram, y, x, b) == {p \in vram \cup {<<y, x>>} : b \/ p /= <<y, x>>}

\* [[false; VIRTUAL_DISPLAY_WIDTH]; VIRTUAL_DISPLAY_HEIGHT]
BlankScreen == {}

\* A panic!: the handler does not return; msg is the panic message and
\* c is the Cpu as the panic found it.
Panic(msg, c) == [panic |-> msg, cpu |-> c]
IsPanic(r) == "panic" \in DOMAIN r

MSG_STACK_EMPTY == "No address on the stack to return to"
MSG_STACK_FULL == "Stack full, can't call another subroutine"
MSG_UNIMPLEMENTED == "Error! Unimplemented opcode"
MSG_TOO_BIG == "Program file too big to fit into system memory"
MSG_INDEX == "index out of bounds"
MSG_SLICE_START == "range start index out of range for slice"
MSG_SLICE_END == "range end index out of range for slice"

----------------------------------------------------------------------------
(* keyboard.rs                                                             *)

\* Keyboard::new
Keyboard_new == [k \in 0 .. NUM_KEYS - 1 |-> FALSE]

\* Keyboard::is_pressed: keys[key as usize]
is_pressed(keys, key) == keys[key]

\* whether keys[key as usize] is inside the array
KeyInRange(key) == key < NUM_KEYS

\* The pad index a keycode is bound to by update_key, -1 for the `_` arm
KeyIndex(key) ==
    CASE key = "Num1" -> \h1 [] key = "Num2" -> \h2
      [] key = "Num3" -> \h3 [] key = "Num4" -> \hC
      [] key = "Q" -> \h4    [] key = "W" -> \h5
      [] key = "E" -> \h6    [] key = "R" -> \hD
      [] key = "A" -> \h7    [] key = "S" -> \h8
      [] key = "D" -> \h9    [] key = "F" -> \hE
      [] key = "Z" -> \hA    [] key = "X" -> \h0
      [] key = "C" -> \hB    [] key = "V" -> \hF
      [] OTHER -> -1

\* Keyboard::update_key
update_key(keys, key, state) ==
    IF KeyIndex(key) >= 0 THEN [keys EXCEPT ![KeyIndex(key)] = state] ELSE keys

----------------------------------------------------------------------------
(* opcode.rs: the decoder                                                  *)

\* A field extraction that shifts y down without masking it first
from_u16_y_unmasked(opcode) ==
    [ x   |-> Shr(BitAnd(opcode, \h0F00), 8),
      y   |-> Shr(opcode, 4),
      n   |-> BitAnd(opcode, \h000F),
      kk  |-> BitAnd(opcode, \h00FF),
      nnn |-> BitAnd(opcode, \h0FFF) ]

\* OpCodeArgs::from_u16
OpCodeArgs_from_u16(opcode) ==
    [ x   |-> Shr(BitAnd(opcode, \h0F00), 8),
      y   |-> Shr(BitAnd(opcode, \h00F0), 4),
      n   |-> BitAnd(opcode, \h000F),
      kk  |-> BitAnd(opcode, \h00FF),
      nnn |-> BitAnd(opcode, \h0FFF) ]

None == "None"

\* A decoder that binds every 9xyn to SNE Vx, Vy, as category 5 is bound
\* without a look at n
from_u16_sne_any_n(opcode) ==
    LET opcode_category == BitAnd(opcode, \hF000)
        args == OpCodeArgs_from_u16(opcode)
    IN  CASE opcode_category = \h0000 ->
               (CASE opcode = \h00E0 -> "opcode_cls"
                  [] opcode = \h00EE -> "opcode_ret"
                  [] OTHER -> "opcode_sys")
          [] opcode_category = \h1000 -> "opcode_jp_addr"
          [] opcode_category = \h2000 -> "opcode_call_addr"
          [] opcode_category = \h3000 -> "opcode_se_vx_byte"
          [] opcode_category = \h4000 -> "opcode_sne_vx_byte"
          [] opcode_category = \h5000 -> "opcode_se_vx_vy"
          [] opcode_category = \h6000 -> "opcode_ld_vx_byte"
          [] opcode_category = \h7000 -> "opcode_add_vx_byte"
          [] opcode_category = \h8000 ->
               (CASE args.n = \h0 -> "opcode_ld_vx_vy"
                  [] args.n = \h1 -> "opcode_or_vx_vy"
                  [] args.n = \h2 -> "opcode_and_vx_vy"
                  [] args.n = \h3 -> "opcode_xor_vx_vy"
                  [] args.n = \h4 -> "opcode_add_vx_vy"
                  [] args.n = \h5 -> "opcode_sub_vx_vy"
                  [] args.n = \h6 -> "opcode_shr_vx_vy"
                  [] args.n = \h7 -> "opcode_subn_vx_vy"
                  [] args.n = \hE -> "opcode_shl_vx_vy"
                  [] OTHER -> None)
          [] opcode_category = \h9000 -> "opcode_sne_vx_vy"
          [] opcode_category = \hA000 -> "opcode_ld_i_addr"
          [] opcode_category = \hB000 -> "opcode_jp_v0_addr"
          [] opcode_category = \hC000 -> "opcode_rnd_vx_byte"
          [] opcode_category = \hD000 -> "opcode_drw_vx_vy_nibble"
          [] opcode_category = \hE000 ->
               (CASE args.kk = \h9E -> "opcode_skp_vx"
                  [] args.kk = \hA1 -> "opcode_sknp_vx"
                  [] OTHER -> None)
          [] opcode_category = \hF000 ->
               (CASE args.kk = \h07 -> "opcode_ld_vx_dt"
                  [] args.kk = \h0A -> "opcode_ld_vx_k"
                  [] args.kk = \h15 -> "opcode_ld_dt_vx"
                  [] args.kk = \h18 -> "opcode_ld_st_vx"
                  [] args.kk = \h1E -> "opcode_add_i_vx"
                  [] args.kk = \h29 -> "opcode_ld_f_vx"
                  [] args.kk = \h33 -> "opcode_ld_b_vx"
                  [] args.kk = \h55 -> "opcode_ld_i_vx"
                  [] args.kk = \h65 -> "opcode_ld_vx_i"
                  [] OTHER -> None)
          [] OTHER -> None

\* OpCode::from_u16: the handler the instruction is bound to, or None
OpCode_from_u16(opcode) ==
    LET opcode_category == BitAnd(opcode, \hF000)
        args == OpCodeArgs_from_u16(opcode)
    IN  CASE opcode_category = \h0000 ->
               (CASE opcode = \h00E0 -> "opcode_cls"
                  [] opcode = \h00EE -> "opcode_ret"
                  [] OTHER -> "opcode_sys")
          [] opcode_category = \h1000 -> "opcode_jp_addr"
          [] opcode_category = \h2000 -> "opcode_call_addr"
          [] opcode_category = \h3000 -> "opcode_se_vx_byte"
          [] opcode_category = \h4000 -> "opcode_sne_vx_byte"
          [] opcode_category = \h5000 -> "opcode_se_vx_vy"
          [] opcode_category = \h6000 -> "opcode_ld_vx_byte"
          [] opcode_category = \h7000 -> "opcode_add_vx_byte"
          [] opcode_category = \h8000 ->
               (CASE args.n = \h0 -> "opcode_ld_vx_vy"
                  [] args.n = \h1 -> "opcode_or_vx_vy"
                  [] args.n = \h2 -> "opcode_and_vx_vy"
                  [] args.n = \h3 -> "opcode_xor_vx_vy"
                  [] args.n = \h4 -> "opcode_add_vx_vy"
                  [] args.n = \h5 -> "opcode_sub_vx_vy"
                  [] args.n = \h6 -> "opcode_shr_vx_vy"
                  [] args.n = \h7 -> "opcode_subn_vx_vy"
                  [] args.n = \hE -> "opcode_shl_vx_vy"
                  [] OTHER -> None)
          [] opcode_category = \h9000 ->
               (CASE args.n = \h0 -> "opcode_sne_vx_vy"
                  [] OTHER -> None)
          [] opcode_category = \hA000 -> "opcode_ld_i_addr"
          [] opcode_category = \hB000 -> "opcode_jp_v0_addr"
          [] opcode_category = \hC000 -> "opcode_rnd_vx_byte"
          [] opcode_category = \hD000 -> "opcode_drw_vx_vy_nibble"
          [] opcode_category = \hE000 ->
               (CASE args.kk = \h9E -> "opcode_skp_vx"
                  [] args.kk = \hA1 -> "opcode_sknp_vx"
                  [] OTHER -> None)
          [] opcode_category = \hF000 ->
               (CASE args.kk = \h07 -> "opcode_ld_vx_dt"
                  [] args.kk = \h0A -> "opcode_ld_vx_k"
                  [] args.kk = \h15 -> "opcode_ld_dt_vx"
                  [] args.kk = \h18 -> "opcode_ld_st_vx"
                  [] args.kk = \h1E -> "opcode_add_i_vx"
                  [] args.kk = \h29 -> "opcode_ld_f_vx"
                  [] args.kk = \h33 -> "opcode_ld_b_vx"
                  [] args.kk = \h55 -> "opcode_ld_i_vx"
                  [] args.kk = \h65 -> "opcode_ld_vx_i"
                  [] OTHER -> None)
          [] OTHER -> None

----------------------------------------------------------------------------
(* opcode.rs: the handlers.  V(c, r) is cpu.data_registers[r].              *)

V(c, r) == c.data_registers[r]

\* whether memory[addr] is inside the array
MemInRange(addr) == addr < MEMORY_LENGTH

\* 0x0nnn SYS addr
opcode_sys(args, c) ==
    [c EXCEPT !.program_counter = @ + INSTR_SIZE]

\* A CLS that blanks the screen without raising the draw flag
cls_without_flag(args, c) ==
    [c EXCEPT !.vram = BlankScreen,
              !.program_counter = @ + INSTR_SIZE]

\* 0x00E0 CLS
opcode_cls(args, c) ==
    [c EXCEPT !.vram = BlankScreen,
              !.draw_flag = TRUE,
              !.program_counter = @ + INSTR_SIZE]

\* A RET that resumes at the call instruction instead of after it
ret_to_call_site(args, c) ==
    IF c.stack_pointer = 0 THEN Panic(MSG_STACK_EMPTY, c)
    ELSE [c EXCEPT !.stack_pointer = @ - 1,
                   !.program_counter = c.stack[c.stack_pointer - 1]]

\* 0x00EE RET
opcode_ret(args, c) ==
    IF c.stack_pointer = 0 THEN Panic(MSG_STACK_EMPTY, c)
    ELSE [c EXCEPT !.stack_pointer = @ - 1,
                   !.program_counter = c.stack[c.stack_pointer - 1] + INSTR_SIZE]

\* A JP that lands one instruction past its target
jp_addr_past_target(args, c) ==
    [c EXCEPT !.program_counter = args.nnn + INSTR_SIZE]

\* 0x1nnn JP addr
opcode_jp_addr(args, c) ==
    [c EXCEPT !.program_counter = args.nnn]

\* CALL whose bounds test lets one call too many through
call_addr_late_check(args, c) ==
    IF c.stack_pointer > STACK_LENGTH THEN Panic(MSG_STACK_FULL, c)
    ELSE [c EXCEPT !.stack[c.stack_pointer] = c.program_counter,
                   !.stack_pointer = @ + 1,
                   !.program_counter = args.nnn]

\* 0x2nnn CALL addr
opcode_call_addr(args, c) ==
    IF c.stack_pointer >= STACK_LENGTH THEN Panic(MSG_STACK_FULL, c)
    ELSE [c EXCEPT !.stack[c.stack_pointer] = c.program_counter,
                   !.stack_pointer = @ + 1,
                   !.program_counter = args.nnn]

\* SE Vx, byte that forgets the advance every handler ends with
se_vx_byte_no_advance(args, c) ==
    [c EXCEPT !.program_counter =
        (IF V(c, args.x) = args.kk THEN @ + INSTR_SIZE ELSE @)]

\* 0x3xkk SE Vx, byte
opcode_se_vx_byte(args, c) ==
    [c EXCEPT !.program_counter =
        (IF V(c, args.x) = args.kk THEN @ + INSTR_SIZE ELSE @) + INSTR_SIZE]

\* 0x4xkk SNE Vx, byte
opcode_sne_vx_byte(args, c) ==
    [c EXCEPT !.program_counter =
        (IF V(c, args.x) /= args.kk THEN @ + INSTR_SIZE ELSE @) + INSTR_SIZE]

\* 0x5xy0 SE Vx, Vy
opcode_se_vx_vy(args, c) ==
    [c EXCEPT !.program_counter =
        (IF V(c, args.x) = V(c, args.y) THEN @ + INSTR_SIZE ELSE @) + INSTR_SIZE]

\* 0x6xkk LD Vx, byte
opcode_ld_vx_byte(args, c) ==
    [c EXCEPT !.data_registers[args.x] = args.kk,
              !.program_counter = @ + INSTR_SIZE]

\* 0x7xkk ADD Vx, byte
opcode_add_vx_byte(args, c) ==
    LET r == u8_overflowing_add(V(c, args.x), args.kk)
    IN  [c EXCEPT !.data_registers[args.x] = r.value,
                  !.program_counter = @ + INSTR_SIZE]

\* 0x8xy0 LD Vx, Vy
opcode_ld_vx_vy(args, c) ==
    [c EXCEPT !.data_registers[args.x] = V(c, args.y),
              !.program_counter = @ + INSTR_SIZE]

\* 0x8xy1 OR Vx, Vy
opcode_or_vx_vy(args, c) ==
    [c EXCEPT !.data_registers[args.x] = BitOr(@, V(c, args.y)),
              !.program_counter = @ + INSTR_SIZE]

\* 0x8xy2 AND Vx, Vy
opcode_and_vx_vy(args, c) ==
    [c EXCEPT !.data_registers[args.x] = BitAnd(@, V(c, args.y)),
              !.program_counter = @ + INSTR_SIZE]

\* 0x8xy3 XOR Vx, Vy
opcode_xor_vx_vy(args, c) ==
    [c EXCEPT !.data_registers[args.x] = BitXor(@, V(c, args.y)),
              !.program_counter = @ + INSTR_SIZE]

\* ADD Vx, Vy that writes VF first and Vx after it
add_vx_vy_flag_first(args, c) ==
    LET r == u8_overflowing_add(V(c, args.x), V(c, args.y))
        regs1 == [c.data_registers EXCEPT ![\hF] = IF r.flag THEN 1 ELSE 0]
        regs2 == [regs1 EXCEPT ![args.x] = r.value]
    IN  [c EXCEPT !.data_registers = regs2,
                  !.program_counter = @ + INSTR_SIZE]

\* 0x8xy4 ADD Vx, Vy: Vx is written first, then VF
opcode_add_vx_vy(args, c) ==
    LET r == u8_overflowing_add(V(c, args.x), V(c, args.y))
        regs1 == [c.data_registers EXCEPT ![args.x] = r.value]
        regs2 == [regs1 EXCEPT ![\hF] = IF r.flag THEN 1 ELSE 0]
    IN  [c EXCEPT !.data_registers = regs2,
                  !.program_counter = @ + INSTR_SIZE]

\* 0x8xy5 SUB Vx, Vy: Vx is written first, then VF
opcode_sub_vx_vy(args, c) ==
    LET r == u8_overflowing_sub(V(c, args.x), V(c, args.y))
        regs1 == [c.data_registers EXCEPT ![args.x] = r.value]
        regs2 == [regs1 EXCEPT ![\hF] = IF r.flag THEN 0 ELSE 1]
    IN  [c EXCEPT !.data_registers = regs2,
                  !.program_counter = @ + INSTR_SIZE]

\* A SHR that shifts Vx first and writes the flag last
shr_vx_vy_flag_last(args, c) ==
    LET regs1 == [c.data_registers EXCEPT ![args.x] = Shr(V(c, args.x), 1)]
        regs2 == [regs1 EXCEPT ![\hF] = BitAnd(V(c, args.x), \h1)]
    IN  [c EXCEPT !.data_registers = regs2,
                  !.program_counter = @ + INSTR_SIZE]

\* 0x8xy6 SHR Vx {, Vy}: VF is written first, then Vx
opcode_shr_vx_vy(args, c) ==
    LET regs1 == [c.data_registers EXCEPT ![\hF] = BitAnd(V(c, args.x), \h1)]
        regs2 == [regs1 EXCEPT ![args.x] = Shr(regs1[args.x], 1)]
    IN  [c EXCEPT !.data_registers = regs2,
                  !.program_counter = @ + INSTR_SIZE]

\* 0x8xy7 SUBN Vx, Vy: Vx is written first, then VF
opcode_subn_vx_vy(args, c) ==
    LET r == u8_overflowing_sub(V(c, args.y), V(c, args.x))
        regs1 == [c.data_registers EXCEPT ![args.x] = r.value]
        regs2 == [regs1 EXCEPT ![\hF] = IF r.flag THEN 0 ELSE 1]
    IN  [c EXCEPT !.data_registers = regs2,
                  !.program_counter = @ + INSTR_SIZE]

\* 0x8xyE SHL Vx {, Vy}: VF is written first, then Vx; u8 << 1 drops bit 7
opcode_shl_vx_vy(args, c) ==
    LET regs1 == [c.data_registers EXCEPT ![\hF] = Shr(V(c, args.x), 7)]
        regs2 == [regs1 EXCEPT ![args.x] = (regs1[args.x] * 2) % U8]
    IN  [c EXCEPT !.data_registers = regs2,
                  !.program_counter = @ + INSTR_SIZE]

\* 0x9xy0 SNE Vx, Vy
opcode_sne_vx_vy(args, c) ==
    [c EXCEPT !.program_counter =
        (IF V(c, args.x) /= V(c, args.y) THEN @ + INSTR_SIZE ELSE @) + INSTR_SIZE]

\* 0xAnnn LD I, addr
opcode_ld_i_addr(args, c) ==
    [c EXCEPT !.i_register = args.nnn,
              !.program_counter = @ + INSTR_SIZE]

\* A JP V0 that rounds its target down to an even address
jp_v0_addr_aligned(args, c) ==
    [c EXCEPT !.program_counter = ((args.nnn + V(c, 0)) \div 2) * 2]

\* 0xBnnn JP V0, addr
opcode_jp_v0_addr(args, c) ==
    [c EXCEPT !.program_counter = args.nnn + V(c, \h0)]

\* 0xCxkk RND Vx, byte; random_byte is what get_random_byte returned
opcode_rnd_vx_byte(args, c, random_byte) ==
    [c EXCEPT !.data_registers[args.x] = BitAnd(random_byte, args.kk),
              !.program_counter = @ + INSTR_SIZE]

\* A DRW row that sets the sprite's pixels instead of toggling them
RECURSIVE draw_row_or(_, _, _, _, _)
draw_row_or(args, c, st, j, i) ==
    IF i >= 8 THEN st
    ELSE LET bit == BitAnd(MemRead(c.memory, c.i_register + j), Shr(\h80, i)) /= 0
             x == (V(c, args.x) + i) % VIRTUAL_DISPLAY_WIDTH
             y == (V(c, args.y) + j) % VIRTUAL_DISPLAY_HEIGHT
             toggled == SetPixel(st.vram, y, x, Pixel(st.vram, y, x) \/ bit)
         IN  IF Pixel(st.vram, y, x) /\ bit
             THEN draw_row_or(args, c, [vram |-> toggled, collision |-> 1], j, i + 1)
             ELSE draw_row_or(args, c, [vram |-> toggled, collision |-> st.collision], j, i + 1)

\* A DRW row read least significant bit first
RECURSIVE draw_row_lsb_first(_, _, _, _, _)
draw_row_lsb_first(args, c, st, j, i) ==
    IF i >= 8 THEN st
    ELSE LET bit == BitAnd(MemRead(c.memory, c.i_register + j), Shr(\h80, 7 - i)) /= 0
             x == (V(c, args.x) + i) % VIRTUAL_DISPLAY_WIDTH
             y == (V(c, args.y) + j) % VIRTUAL_DISPLAY_HEIGHT
             toggled == SetPixel(st.vram, y, x, Pixel(st.vram, y, x) /= bit)
         IN  IF Pixel(st.vram, y, x) /\ bit
             THEN draw_row_lsb_first(args, c, [vram |-> toggled, collision |-> 1], j, i + 1)
             ELSE draw_row_lsb_first(args, c, [vram |-> toggled, collision |-> st.collision], j, i + 1)

\* The inner loop of DRW over the bits of sprite row j, from bit i onwards;
\* st holds cpu.vram and the local `collision` as the loops have left them
\* so far.
RECURSIVE DrawRow(_, _, _, _, _)
DrawRow(args, c, st, j, i) ==
    IF i >= 8 THEN st
    ELSE LET bit == BitAnd(MemRead(c.memory, c.i_register + j), Shr(\h80, i)) /= 0
             x == (V(c, args.x) + i) % VIRTUAL_DISPLAY_WIDTH
             y == (V(c, args.y) + j) % VIRTUAL_DISPLAY_HEIGHT
             toggled == SetPixel(st.vram, y, x, Pixel(st.vram, y, x) /= bit)
         IN  IF Pixel(st.vram, y, x) /\ bit
             THEN DrawRow(args, c, [vram |-> toggled, collision |-> 1], j, i + 1)
             ELSE DrawRow(args, c, [vram |-> toggled, collision |-> st.collision], j, i + 1)

\* The outer loop of DRW over the sprite rows, from row j onwards
RECURSIVE DrawLoop(_, _, _, _)
DrawLoop(args, c, st, j) ==
    IF j >= args.n THEN st
    ELSE DrawLoop(args, c, DrawRow(args, c, st, j, 0), j + 1)

\* 0xDxyn DRW Vx, Vy, nibble.  Taking the slice memory[I .. I + n] panics
\* when it starts past the end of the array and, if not, when it ends past
\* it, each with a message of its own.
opcode_drw_vx_vy_nibble(args, c) ==
    IF c.i_register > MEMORY_LENGTH THEN Panic(MSG_SLICE_START, c)
    ELSE IF c.i_register + args.n > MEMORY_LENGTH THEN Panic(MSG_SLICE_END, c)
    ELSE LET st == DrawLoop(args, c, [vram |-> c.vram, collision |-> 0], 0)
         IN  [c EXCEPT !.vram = st.vram,
                       !.data_registers[\hF] = st.collision,
                       !.draw_flag = TRUE,
                       !.program_counter = @ + INSTR_SIZE]

\* 0xEx9E SKP Vx
opcode_skp_vx(args, c) ==
    IF ~KeyInRange(V(c, args.x)) THEN Panic(MSG_INDEX, c)
    ELSE [c EXCEPT !.program_counter =
            (IF is_pressed(c.keyboard, V(c, args.x)) THEN @ + INSTR_SIZE ELSE @)
            + INSTR_SIZE]

\* 0xExA1 SKNP Vx
opcode_sknp_vx(args, c) ==
    IF ~KeyInRange(V(c, args.x)) THEN Panic(MSG_INDEX, c)
    ELSE [c EXCEPT !.program_counter =
            (IF ~is_pressed(c.keyboard, V(c, args.x)) THEN @ + INSTR_SIZE ELSE @)
            + INSTR_SIZE]

\* 0xFx07 LD Vx, DT
opcode_ld_vx_dt(args, c) ==
    [c EXCEPT !.data_registers[args.x] = c.delay_timer,
              !.program_counter = @ + INSTR_SIZE]

\* The loop of LD Vx, K from key i onwards: the first pressed key ends it
RECURSIVE WaitKeyLoop(_, _, _)
WaitKeyLoop(args, c, i) ==
    IF i >= 16 THEN c
    ELSE IF is_pressed(c.keyboard, i)
         THEN [c EXCEPT !.data_registers[args.x] = i,
                        !.program_counter = @ + INSTR_SIZE]
         ELSE WaitKeyLoop(args, c, i + 1)

\* LD Vx, K that moves on whether or not a key was found
ld_vx_k_no_stall(args, c) ==
    [WaitKeyLoop(args, c, 0) EXCEPT !.program_counter = c.program_counter + INSTR_SIZE]

\* LD Vx, K with a loop that never looks at key 0
ld_vx_k_from_key_1(args, c) == WaitKeyLoop(args, c, 1)

\* 0xFx0A LD Vx, K
opcode_ld_vx_k(args, c) == WaitKeyLoop(args, c, 0)

\* 0xFx15 LD DT, Vx
opcode_ld_dt_vx(args, c) ==
    [c EXCEPT !.delay_timer = V(c, args.x),
              !.program_counter = @ + INSTR_SIZE]

\* 0xFx18 LD ST, Vx
opcode_ld_st_vx(args, c) ==
    [c EXCEPT !.sound_timer = V(c, args.x),
              !.program_counter = @ + INSTR_SIZE]

\* 0xFx1E ADD I, Vx
opcode_add_i_vx(args, c) ==
    LET r == usize_overflowing_add(c.i_register, V(c, args.x))
    IN  [c EXCEPT !.i_register = r.value,
                  !.data_registers[\hF] = IF r.flag THEN 1 ELSE 0,
                  !.program_counter = @ + INSTR_SIZE]

\* LD F, Vx taking a glyph to be four bytes long
ld_f_vx_four_rows(args, c) ==
    [c EXCEPT !.i_register = V(c, args.x) * 4,
              !.program_counter = @ + INSTR_SIZE]

\* 0xFx29 LD F, Vx
opcode_ld_f_vx(args, c) ==
    [c EXCEPT !.i_register = V(c, args.x) * 5,
              !.program_counter = @ + INSTR_SIZE]

\* LD B, Vx taking the tens digit as val / 10
ld_b_vx_tens_unreduced(args, c) ==
    LET val == V(c, args.x)
        c1 == [c EXCEPT !.memory = MemWrite(@, c.i_register, val \div 100)]
        c2 == [c1 EXCEPT !.memory = MemWrite(@, c.i_register + 1, val \div 10)]
        c3 == [c2 EXCEPT !.memory = MemWrite(@, c.i_register + 2, (val % 100) % 10)]
    IN  IF ~MemInRange(c.i_register) THEN Panic(MSG_INDEX, c)
        ELSE IF ~MemInRange(c.i_register + 1) THEN Panic(MSG_INDEX, c1)
        ELSE IF ~MemInRange(c.i_register + 2) THEN Panic(MSG_INDEX, c2)
        ELSE [c3 EXCEPT !.program_counter = @ + INSTR_SIZE]

\* 0xFx33 LD B, Vx: three writes in order, each of which panics when its
\* index is past the array
opcode_ld_b_vx(args, c) ==
    LET val == V(c, args.x)
        c1 == [c EXCEPT !.memory = MemWrite(@, c.i_register, val \div 100)]
        c2 == [c1 EXCEPT !.memory = MemWrite(@, c.i_register + 1, (val \div 10) % 10)]
        c3 == [c2 EXCEPT !.memory = MemWrite(@, c.i_register + 2, (val % 100) % 10)]
    IN  IF ~MemInRange(c.i_register) THEN Panic(MSG_INDEX, c)
        ELSE IF ~MemInRange(c.i_register + 1) THEN Panic(MSG_INDEX, c1)
        ELSE IF ~MemInRange(c.i_register + 2) THEN Panic(MSG_INDEX, c2)
        ELSE [c3 EXCEPT !.program_counter = @ + INSTR_SIZE]

\* The loop of LD [I], Vx from register i onwards
RECURSIVE StoreLoop(_, _, _)
StoreLoop(args, c, i) ==
    IF i >= args.x + 1 THEN [c EXCEPT !.program_counter = @ + INSTR_SIZE]
    ELSE IF ~MemInRange(c.i_register + i) THEN Panic(MSG_INDEX, c)
    ELSE StoreLoop(args, [c EXCEPT !.memory = MemWrite(@, c.i_register + i, V(c, i))], i + 1)

\* 0xFx55 LD [I], Vx
opcode_ld_i_vx(args, c) == StoreLoop(args, c, 0)

\* LD Vx, [I] with a loop that stops before register x
RECURSIVE load_loop_exclusive(_, _, _)
load_loop_exclusive(args, c, i) ==
    IF i >= args.x THEN [c EXCEPT !.program_counter = @ + INSTR_SIZE]
    ELSE IF ~MemInRange(c.i_register + i) THEN Panic(MSG_INDEX, c)
    ELSE load_loop_exclusive(args, [c EXCEPT !.data_registers[i] = MemRead(c.memory, c.i_register + i)], i + 1)

\* The loop of LD Vx, [I] from register i onwards
RECURSIVE LoadLoop(_, _, _)
LoadLoop(args, c, i) ==
    IF i >= args.x + 1 THEN [c EXCEPT !.program_counter = @ + INSTR_SIZE]
    ELSE IF ~MemInRange(c.i_register + i) THEN Panic(MSG_INDEX, c)
    ELSE LoadLoop(args, [c EXCEPT !.data_registers[i] = MemRead(c.memory, c.i_register + i)], i + 1)

\* 0xFx65 LD Vx, [I]
opcode_ld_vx_i(args, c) == LoadLoop(args, c, 0)

\* (opcode.operation)(&opcode.args, self): the call through the handler
\* pointer that OpCode::from_u16 chose
Operation(operation, args, c, random_byte) ==
    CASE operation = "opcode_sys" -> opcode_sys(args, c)
      [] operation = "opcode_cls" -> opcode_cls(args, c)
      [] operation = "opcode_ret" -> opcode_ret(args, c)
      [] operation = "opcode_jp_addr" -> opcode_jp_addr(args, c)
      [] operation = "opcode_call_addr" -> opcode_call_addr(args, c)
      [] operation = "opcode_se_vx_byte" -> opcode_se_vx_byte(args, c)
      [] operation = "opcode_sne_vx_byte" -> opcode_sne_vx_byte(args, c)
      [] operation = "opcode_se_vx_vy" -> opcode_se_vx_vy(args, c)
      [] operation = "opcode_ld_vx_byte" -> opcode_ld_vx_byte(args, c)
      [] operation = "opcode_add_vx_byte" -> opcode_add_vx_byte(args, c)
      [] operation = "opcode_ld_vx_vy" -> opcode_ld_vx_vy(args, c)
      [] operation = "opcode_or_vx_vy" -> opcode_or_vx_vy(args, c)
      [] operation = "opcode_and_vx_vy" -> opcode_and_vx_vy(args, c)
      [] operation = "opcode_xor_vx_vy" -> opcode_xor_vx_vy(args, c)
      [] operation = "opcode_add_vx_vy" -> opcode_add_vx_vy(args, c)
      [] operation = "opcode_sub_vx_vy" -> opcode_sub_vx_vy(args, c)
      [] operation = "opcode_shr_vx_vy" -> opcode_shr_vx_vy(args, c)
      [] operation = "opcode_subn_vx_vy" -> opcode_subn_vx_vy(args, c)
      [] operation = "opcode_shl_vx_vy" -> opcode_shl_vx_vy(args, c)
      [] operation = "opcode_sne_vx_vy" -> opcode_sne_vx_vy(args, c)
      [] operation = "opcode_ld_i_addr" -> opcode_ld_i_addr(args, c)
      [] operation = "opcode_jp_v0_addr" -> opcode_jp_v0_addr(args, c)
      [] operation = "opcode_rnd_vx_byte" -> opcode_rnd_vx_byte(args, c, random_byte)
      [] operation = "opcode_drw_vx_vy_nibble" -> opcode_drw_vx_vy_nibble(args, c)
      [] operation = "opcode_skp_vx" -> opcode_skp_vx(args, c)
      [] operation = "opcode_sknp_vx" -> opcode_sknp_vx(args, c)
      [] operation = "opcode_ld_vx_dt" -> opcode_ld_vx_dt(args, c)
      [] operation = "opcode_ld_vx_k" -> opcode_ld_vx_k(args, c)
      [] operation = "opcode_ld_dt_vx" -> opcode_ld_dt_vx(args, c)
      [] operation = "opcode_ld_st_vx" -> opcode_ld_st_vx(args, c)
      [] operation = "opcode_add_i_vx" -> opcode_add_i_vx(args, c)
      [] operation = "opcode_ld_f_vx" -> opcode_ld_f_vx(args, c)
      [] operation = "opcode_ld_b_vx" -> opcode_ld_b_vx(args, c)
      [] operation = "opcode_ld_i_vx" -> opcode_ld_i_vx(args, c)
      [] operation = "opcode_ld_vx_i" -> opcode_ld_vx_i(args, c)

----------------------------------------------------------------------------
(* cpu.rs                                                                  *)

\* The copy loops of init_from_buffer: memory[base + i] = src[i] for every
\* index i of src (src is 1-based here); each address is written once
CopyIn(memory, base, src) ==
    LET dst == {base + i - 1 : i \in 1 .. Len(src)}
        nonzero == {a \in dst : src[a - base + 1] /= 0}
    IN  [a \in (DOMAIN memory \ dst) \cup nonzero |->
            IF a \in dst THEN src[a - base + 1] ELSE memory[a]]

\* Cpu::init_from_buffer
init_from_buffer(buf) ==
    IF Len(buf) > MEMORY_LENGTH - USER_PROGRAM_START_ADDR
    THEN Panic(MSG_TOO_BIG, None)
    ELSE LET memory0 == << >>
             memory1 == CopyIn(memory0, USER_PROGRAM_START_ADDR, buf)
             memory2 == CopyIn(memory1, FONT_SET_START_ADDR, FONT_SET)
         IN  [ memory |-> memory2,
               data_registers |-> [r \in 0 .. NUM_REGISTERS - 1 |-> 0],
               i_register |-> 0,
               delay_timer |-> 0,
               sound_timer |-> 0,
               program_counter |-> USER_PROGRAM_START_ADDR,
               stack_pointer |-> 0,
               stack |-> [k \in 0 .. STACK_LENGTH - 1 |-> 0],
               program_length |-> Len(buf),
               vram |-> BlankScreen,
               draw_flag |-> FALSE,
               keyboard |-> Keyboard_new ]

\* A completion test that lets the counter run one instruction past the end
completed_late(c) ==
    c.program_counter > USER_PROGRAM_START_ADDR + c.program_length

\* The first test of fetch_and_execute: the program counter is past the program
Completed(c) ==
    c.program_counter >= USER_PROGRAM_START_ADDR + c.program_length

\* The instruction fetch_and_execute reads at the program counter
Fetch(c) ==
    MemRead(c.memory, c.program_counter) * 256 + MemRead(c.memory, c.program_counter + 1)

\* A timer block without the `> 0` tests: the u8 wraps below zero
decrement_timers_unguarded(c) ==
    [c EXCEPT !.delay_timer = (@ - 1) % U8,
              !.sound_timer = (@ - 1) % U8]

\* A timer block that makes up for a long pause with a second decrement
decrement_timers_twice(c) ==
    [c EXCEPT !.delay_timer = IF @ > 1 THEN @ - 2 ELSE 0,
              !.sound_timer = IF @ > 1 THEN @ - 2 ELSE 0]

\* The timer block of fetch_and_execute, entered when more than the period has
\* passed since last_timer_decrease
DecrementTimers(c) ==
    [c EXCEPT !.delay_timer = IF @ > 0 THEN @ - 1 ELSE @,
              !.sound_timer = IF @ > 0 THEN @ - 1 ELSE @]

\* What one call of fetch_and_execute leaves behind
StepResult(c, r, p, el, dc, tex) ==
    [cpu |-> c, ret |-> r, panic |-> p, elapsed |-> el, draw_calls |-> dc, texture |-> tex]

\* Cpu::fetch_and_execute.  c is the Cpu, el the time from last_timer_decrease
\* to the previous clock read, tex the display's texture, d the time that
\* passes until this call reads the clock, random_byte the byte
\* get_random_byte would return.
fetch_and_execute(c, el, tex, d, random_byte) ==
    IF Completed(c) THEN StepResult(c, "false", "", el, 0, tex)
    ELSE IF ~MemInRange(c.program_counter + 1)
    THEN StepResult(c, "panic", MSG_INDEX, el, 0, tex)
    ELSE
    LET instruction == Fetch(c)
        operation == OpCode_from_u16(instruction)
    IN  IF operation = None
        THEN StepResult(c, "panic", MSG_UNIMPLEMENTED, el, 0, tex)
        ELSE
        LET c1 == Operation(operation, OpCodeArgs_from_u16(instruction), c, random_byte)
        IN  IF IsPanic(c1)
            THEN StepResult(c1.cpu, "panic", c1.panic, el, 0, tex)
            ELSE
            LET tick == el + d > TIMER_PERIOD_MS
                c2 == IF tick THEN DecrementTimers(c1) ELSE c1
                el2 == IF tick THEN 0 ELSE el + d
            IN  IF c2.draw_flag
                THEN StepResult([c2 EXCEPT !.draw_flag = FALSE], "true", "", el2, 1, c2.vram)
                ELSE StepResult(c2, "true", "", el2, 0, tex)

\* Cpu::get_random_byte: Range::new(0, 256)
RandomBytes == 0 .. 255

----------------------------------------------------------------------------
(* main.rs                                                                 *)

\* The events one poll_iter can deliver
Quit == [type |-> "Quit"]
KeyDown(key) == [type |-> "KeyDown", key |-> key]
KeyUp(key) == [type |-> "KeyUp", key |-> key]
OtherEvent == [type |-> "Other"]

\* An event loop that hands Escape to update_key like any other key
RECURSIVE poll_loop_escape_as_key(_, _, _)
poll_loop_escape_as_key(keys, evs, i) ==
    IF i > Len(evs) THEN [keys |-> keys, break |-> FALSE]
    ELSE LET event == evs[i]
         IN  CASE event.type = "Quit" -> [keys |-> keys, break |-> TRUE]
               [] event.type = "KeyDown" ->
                    poll_loop_escape_as_key(update_key(keys, event.key, TRUE), evs, i + 1)
               [] event.type = "KeyUp" ->
                    poll_loop_escape_as_key(update_key(keys, event.key, FALSE), evs, i + 1)
               [] OTHER -> poll_loop_escape_as_key(keys, evs, i + 1)

\* The for loop over event_pump.poll_iter(), from event i of evs onwards:
\* the keys as the loop leaves them and whether it took `break 'running`
RECURSIVE PollLoop(_, _, _)
PollLoop(keys, evs, i) ==
    IF i > Len(evs) THEN [keys |-> keys, break |-> FALSE]
    ELSE LET event == evs[i]
         IN  CASE event.type = "Quit" -> [keys |-> keys, break |-> TRUE]
               [] event.type = "KeyDown" ->
                    IF event.key = "Escape"
                    THEN [keys |-> keys, break |-> TRUE]
                    ELSE PollLoop(update_key(keys, event.key, TRUE), evs, i + 1)
               [] event.type = "KeyUp" ->
                    PollLoop(update_key(keys, event.key, FALSE), evs, i + 1)
               [] OTHER -> PollLoop(keys, evs, i + 1)

----------------------------------------------------------------------------
(* Inputs: the program images, the clock and the host's events             *)

\* The time between two clock reads is one of two lengths: a short one, of
\* which several fit in a timer period, and a long one that spans several.
ShortDelta == 6
LongDelta == 50
Deltas == {ShortDelta, LongDelta}

\* The most events one poll_iter drains
MaxEvents == 2
KeyCodes == {"X", "Num2", "Escape"}
Events == {Quit, OtherEvent} \cup {KeyDown(k) : k \in KeyCodes} \cup {KeyUp(k) : k \in KeyCodes}
EventSeqs == UNION {[1 .. n -> Events] : n \in 0 .. MaxEvents}

\* The bytes of a sequence of big-endian 16-bit words
Bytes(ws) ==
    [i \in 1 .. 2 * Len(ws) |->
        IF i % 2 = 1 THEN ws[(i + 1) \div 2] \div 256 ELSE ws[i \div 2] % 256]

\* The instruction words cxkk and cxyn
Ixkk(c, x, kk) == c * 4096 + x * 256 + kk
Ixyn(c, x, y, n) == c * 4096 + x * 256 + y * 16 + n

ByteSamples == {0, 1, 127, 128, 255}
RegPairs == {<<1, 2>>, <<2, 15>>, <<15, 2>>, <<15, 15>>, <<3, 3>>}

\* call and return: a call of itself; a chain of 17 calls, each of the next
\* word; a return on an empty stack; calls that return, one and two deep
StackPrograms ==
    { <<\h2200>>,
      [i \in 1 .. 17 |-> \h2200 + 2 * i],
      <<\h00EE>>,
      <<\h2204, \h1202, \h00EE>>,
      <<\h2204, \h1202, \h2208, \h00EE, \h00EE>> }

\* wait-for-key into V3 and into VF, the register holding something before
KeyPrograms ==
    { <<\h63AA, \hF30A, \h1204>>,
      <<\h6FAA, \h6407, \hFF0A, \h00E0>> }

\* both timers set and then left to run down while the program loops; the
\* delay timer set just before the program ends
TimerPrograms ==
    { <<Ixkk(6, 0, t[1]), Ixkk(6, 1, t[2]), \hF015, \hF118, \hF207, \h1208>> :
        t \in {<<1, 0>>, <<0, 2>>, <<3, 1>>} }
    \cup { <<\h60FF, \h61FF, \hF015, \hF118, \hF207>>, <<\h6005, \hF015>> }

\* Vx := a, Vy := b, then the ALU instruction 8xyo on them
AluPrograms(o) ==
    { <<Ixkk(6, p[1], a), Ixkk(6, p[2], b), Ixyn(8, p[1], p[2], o)>> :
        <<a, b, p>> \in ByteSamples \X ByteSamples \X RegPairs }

\* VF := 0x55, Vx := a, then add-immediate of b to Vx
AddImmediatePrograms ==
    { <<\h6F55, Ixkk(6, x, a), Ixkk(7, x, b)>> :
        <<a, b, x>> \in ByteSamples \X ByteSamples \X {1, 15} }

AddPrograms == AluPrograms(4) \cup AddImmediatePrograms
SubPrograms == AluPrograms(5) \cup AluPrograms(7)
ShiftPrograms == AluPrograms(6) \cup AluPrograms(14)

\* one of each ALU instruction, with a carry, a borrow and both shifted-out bits
AluTourPrograms ==
    { <<\h61FF, \h6281, \h7103, \h8124, \h8125, \h8216, \h8127, \h821E>> }

\* the glyph of digit 0 drawn at (5, 6), then the one-row sprite 0xFF (the
\* data word at 0x214) drawn twice at (Vx, Vy) = (a, b)
DrawPrograms ==
    { <<\hA000, \h6405, \h6506, \hD455, \hA214, Ixkk(6, 0, p[1]), Ixkk(6, 1, p[2]),
        \hD011, \hD011, \h1212, \hFF00>> :
        p \in {<<20, 0>>, <<60, 31>>, <<255, 255>>, <<5, 6>>, <<1, 8>>} }

\* each skip instruction with its condition true and false; the key tests
\* also with a key number that is no key
SkipPrograms ==
    { <<\h6005, Ixkk(c, 0, k), \h6101, \h6202>> : <<c, k>> \in {3, 4} \X {5, 6} }
    \cup
    { <<\h6007, Ixkk(6, 1, b), w, \h6201, \h6302>> :
        <<b, w>> \in {7, 8} \X {\h5010, \h5011, \h9010} }
    \cup
    { <<Ixkk(6, 0, v), w, \h6101, \h6202>> :
        <<v, w>> \in {0, 2, 16} \X {\hE09E, \hE0A1} }

\* jump-indexed over a word, into a loop
JumpPrograms ==
    { <<\h6004, \hB202, \h0000, \h1206>> }

\* one of each of the remaining instructions, run until the program ends
TourPrograms ==
    { <<\h00E0, \h0123, \h6012, \h6134, \h8010, \h6056, \h8011, \h8012,
        \h8013, \hA300, \hC201, \hF01E, \hF129, \hA300, \hF133, \hF155,
        \hF165, \hF307, \hD015, \hA000, \hD12F, \hD120>> }

\* load-immediate of 5 into V0, then a jump to 0x200
ScenarioPrograms ==
    { <<\h6005, \h1200>> }

\* An image of n bytes: the bytes of head, then zeros, then last as its
\* final byte
Image(n, head, last) ==
    [i \in 1 .. n |-> IF i <= Len(head) THEN head[i] ELSE IF i = n THEN last ELSE 0]

\* images for the load: empty, short, the longest that fits, and one and two
\* bytes longer than that; the long ones begin with a jump to 0x200
LoadImages ==
    { <<>>, <<\h12, \h00>>, <<\h60, \h05, \hF0, \h15, \h12, \h04>> }
    \cup { Image(n, <<\h12, \h00>>, \hAB) :
             n \in { MEMORY_LENGTH - USER_PROGRAM_START_ADDR + k : k \in {0, 1, 2} } }

\* accesses at the end of memory: store-bcd, store-registers, load-registers
\* and draw with I at a, so that the access ends on the last byte or past it;
\* a draw of no rows with I past the end; and the longest image that fits,
\* whose last byte the program jumps to
MemoryEdgePrograms ==
    { <<\hA000 + a, \h60FE, \h6107, w, \h1208>> :
        <<a, w>> \in {\hFFC, \hFFD, \hFFF} \X {\hF033} }
    \cup
    { <<\hA000 + a, \h60FE, \h6107, w, \h1208>> :
        <<a, w>> \in {\hFFD, \hFFE} \X {\hF155, \hF165, \hD012} }
    \cup
    { <<\hAFFF, \h6001, w, \hD000, \h1208>> : w \in {\h0000, \hF01E} }
MemoryEdgeImages ==
    { Bytes(ws) : ws \in MemoryEdgePrograms }
    \cup { Image(MEMORY_LENGTH - USER_PROGRAM_START_ADDR, <<\h1F, \hFE>>, \hAB) }

\* jumps to odd addresses: a jump into the middle of a word, a jump-indexed
\* with V0 odd, and a call of an odd address that returns
OddTargetPrograms ==
    { <<\h1203, \h0060, \h0512, \h0400>>,
      <<\h6001, \hB204, \h0000, \h0000>>,
      <<\h2205, \h0000, \h0000, \hEE00>> }

\* words no handler is bound to
UnimplementedPrograms ==
    { <<\h6101, w>> : w \in {\h8008, \h9001, \hE000, \hF0FF} }

Programs ==
    { Bytes(ws) : ws \in StackPrograms \cup KeyPrograms \cup TimerPrograms
                          \cup AluTourPrograms \cup DrawPrograms \cup SkipPrograms
                          \cup JumpPrograms \cup TourPrograms \cup ScenarioPrograms
                          \cup OddTargetPrograms
                          \cup UnimplementedPrograms }

----------------------------------------------------------------------------
(* The run: main loads the program, then alternates a step and a poll      *)

\* main from its start to the first test of the loop, for a program of S; a
\* panic of the load ends the run before the loop, with no Cpu
Load(S) ==
    \E buf \in S :
        LET r == init_from_buffer(buf)
        IN  /\ cpu = IF IsPanic(r) THEN r.cpu ELSE r
            /\ elapsed = 0
            /\ host = IF IsPanic(r) THEN "exited" ELSE "step"
            /\ ret = IF IsPanic(r) THEN "panic" ELSE "none"
            /\ panic = IF IsPanic(r) THEN r.panic ELSE ""
            /\ draw_calls = 0
            /\ texture = BlankScreen

\* whether the instruction the next step would run draws a random byte
NeedsRandom(c) ==
    /\ ~Completed(c)
    /\ MemInRange(c.program_counter + 1)
    /\ OpCode_from_u16(Fetch(c)) = "opcode_rnd_vx_byte"

\* The loop condition of main: one call of cpu.fetch_and_execute
Step ==
    /\ host = "step"
    /\ \E d \in Deltas :
       \E random_byte \in (IF NeedsRandom(cpu) THEN RandomBytes ELSE {0}) :
          LET r == fetch_and_execute(cpu, elapsed, texture, d, random_byte)
          IN  /\ cpu' = r.cpu
              /\ elapsed' = r.elapsed
              /\ ret' = r.ret
              /\ panic' = r.panic
              /\ draw_calls' = r.draw_calls
              /\ texture' = r.texture
              /\ host' = IF r.ret = "true" THEN "poll" ELSE "exited"

\* The loop body of main: the pending events are drained
Poll ==
    /\ host = "poll"
    /\ \E evs \in EventSeqs :
          LET r == PollLoop(cpu.keyboard, evs, 1)
          IN  /\ cpu' = [cpu EXCEPT !.keyboard = r.keys]
              /\ host' = IF r.break THEN "exited" ELSE "step"
    /\ UNCHANGED <<elapsed, ret, panic, draw_calls, texture>>

Next == Step \/ Poll

Init == Load(Programs)
Spec == Init /\ [][Next]_vars

\* I = 0xFFF, V0 = 0xFF, then ADD I, V0 often enough to carry I past 0xFFFF,
\* then a jump to itself
AddIndexCount == 242
AddIndexProgram ==
    <<\hAFFF, \h60FF>> \o [k \in 1 .. AddIndexCount |-> \hF01E]
        \o <<\h1000 + \h200 + 2 * (AddIndexCount + 2)>>

\* I := 0x300, V2 := v, store-bcd of V2, for every byte v; and the same with
\* VF, I pointing at the program itself
BcdPrograms ==
    { <<\hA300, Ixkk(6, 2, v), \hF233>> : v \in 0 .. 255 }
    \cup { <<\hA200, Ixkk(6, 15, v), \hFF33>> : v \in ByteSamples }

\* V0, V1, V2 and VF set, I := 0x300, store-registers and then load-registers
\* with the same x; and load-registers from the program's own bytes followed
\* by store-registers elsewhere
RegisterCopyPrograms ==
    { <<\h6011, \h6122, \h6233, \h6F44, \hA300, Ixkk(15, x, \h55), Ixkk(15, x, \h65)>> :
        x \in {0, 1, 2, 15} }
    \cup
    { <<\hA200, Ixkk(15, x, \h65), \hA300, Ixkk(15, x, \h55)>> : x \in {0, 2, 15} }

\* V3 := d, I := the glyph of V3, and the glyph drawn, for every digit d and
\* for two bytes that are no digit; and the same after the program has
\* written over the first glyph
FontPrograms ==
    { <<Ixkk(6, 3, d), \hF329, \hD005>> : d \in (0 .. 15) \cup {16, 255} }
    \cup { <<\h60FF, \hA001, \hF055, \h6300, \hF329, \hD005>> }

\* a jump, a jump-indexed and a call to their own address, and a call to a
\* return in the next word
SelfTargetPrograms ==
    { <<\h1200>>, <<\hB200>>, <<\h2200>>, <<\h2202, \h00EE>> }

\* The same run over the programs that exercise one family of ALU
\* instructions on every pair of sample bytes and register pair
InitAdd == Load({Bytes(ws) : ws \in AddPrograms})
SpecAdd == InitAdd /\ [][Next]_vars

InitSub == Load({Bytes(ws) : ws \in SubPrograms})
SpecSub == InitSub /\ [][Next]_vars

InitShift == Load({Bytes(ws) : ws \in ShiftPrograms})
SpecShift == InitShift /\ [][Next]_vars

\* The first call of fetch_and_execute on every program of one instruction
\* word cxkk, for every category c, every low byte kk and two values of x:
\* every selector the decoder looks at, with x zero (as in 00E0 and 00EE)
\* and not.  RND, which has no selector and 256 outcomes, gets three masks.
InstructionWords ==
    {Ixkk(c, x, kk) : c \in (0 .. 15) \ {12}, x \in {0, 10}, kk \in 0 .. 255}
    \cup {Ixkk(12, x, kk) : x \in {0, 10}, kk \in {\h00, \h0F, \hFF}}
InitDecode == Load({Bytes(<<w>>) : w \in InstructionWords})
SpecDecode == InitDecode /\ [][Step]_vars

\* The run over the images that probe the load's length test
InitLoad == Load(LoadImages)
SpecLoad == InitLoad /\ [][Next]_vars

\* The run of the program that keeps adding to I
InitIndex == Load({Bytes(AddIndexProgram)})
SpecIndex == InitIndex /\ [][Next]_vars

\* The run over the store-bcd programs
InitBcd == Load({Bytes(ws) : ws \in BcdPrograms})
SpecBcd == InitBcd /\ [][Next]_vars

\* The run over the store-registers and load-registers programs
InitRegisterCopy == Load({Bytes(ws) : ws \in RegisterCopyPrograms})
SpecRegisterCopy == InitRegisterCopy /\ [][Next]_vars

\* The run over the font programs
InitFont == Load({Bytes(ws) : ws \in FontPrograms})
SpecFont == InitFont /\ [][Next]_vars

\* The run over the programs that wait for a key, one of which ends, and the
\* two-word loop
InitHost == Load({Bytes(ws) : ws \in KeyPrograms \cup ScenarioPrograms})
SpecHost == InitHost /\ [][Next]_vars

\* The host leaves the loop test: fetch_and_execute has been called and has
\* returned or panicked.  Of the transitions of Next these are the ones Step
\* makes.
StepCalled == host = "step" /\ host' \in {"poll", "exited"}

\* The run over the programs that wait for a key or come back to the word
\* they ran, in which the host, once at the loop test, calls the step
InitStall == Load({Bytes(ws) : ws \in KeyPrograms \cup SelfTargetPrograms})
SpecStall == InitStall /\ [][Next]_vars /\ WF_host(StepCalled)

\* The run over the programs that reach the end of memory
InitMemory == Load(MemoryEdgeImages)
SpecMemory == InitMemory /\ [][Next]_vars

----------------------------------------------------------------------------
(* Vocabulary of the properties                                            *)

\* The transition is one call of fetch_and_execute
IsStep == host = "step" /\ host' /= "step"

PC == cpu.program_counter
Reg(r) == cpu.data_registers[r]

\* The program counter is at or past the end of the loaded program
PastEnd == PC >= \h200 + cpu.program_length

\* The call gets as far as fetching an instruction
Fetches == ~PastEnd /\ PC + 1 <= \hFFE

\* The instruction word at the program counter and its fields, by position
Word == MemRead(cpu.memory, PC) * 256 + MemRead(cpu.memory, PC + 1)
WordCategory == Word \div 4096
WordX == (Word \div 256) % 16
WordY == (Word \div 16) % 16
WordN == Word % 16
WordKK == Word % 256
WordNNN == Word % 4096

\* The step executed its instruction and, in the same call, ticked the timers
Continued == IsStep /\ ret' = "true"
Ticked == Continued /\ elapsed' = 0

----------------------------------------------------------------------------
(* C1: stack discipline                                                    *)

IsCall == Fetches /\ WordCategory = 2
IsRet == Fetches /\ Word = \h00EE

C1_Range == cpu.stack_pointer \in 0 .. STACK_LENGTH

C1_Step ==
    IsStep =>
       /\ IsCall /\ cpu.stack_pointer < STACK_LENGTH =>
             /\ ret' = "true"
             /\ cpu'.stack_pointer = cpu.stack_pointer + 1
       /\ IsCall /\ cpu.stack_pointer = STACK_LENGTH =>
             /\ ret' = "panic" /\ panic' = MSG_STACK_FULL
             /\ cpu' = cpu
       /\ IsRet /\ cpu.stack_pointer = 0 =>
             /\ ret' = "panic" /\ panic' = MSG_STACK_EMPTY
             /\ cpu' = cpu

\* C1: the stack pointer is always in 0 .. 16; a call with fewer than 16
\* entries pushed succeeds and pushes one; a call with 16 pushed panics with
\* the stack-full message and a return with none pushed panics with the
\* stack-empty message, both leaving every field of the Cpu as it was.
C1_StackDiscipline == [] C1_Range /\ [][C1_Step]_vars

\* 16 nested calls went through and the 17th ended the run
C1_Witness ==
    /\ ret = "panic" /\ panic = MSG_STACK_FULL
    /\ cpu.stack_pointer = STACK_LENGTH
    /\ cpu.stack[STACK_LENGTH - 1] /= cpu.stack[0]

----------------------------------------------------------------------------
(* C2: wait-for-key                                                        *)

IsWaitKey == Fetches /\ WordCategory = 15 /\ WordKK = \h0A

NoKeyPressed == \A k \in 0 .. NUM_KEYS - 1 : ~cpu.keyboard[k]
LowestPressed ==
    CHOOSE k \in 0 .. NUM_KEYS - 1 :
        cpu.keyboard[k] /\ \A j \in 0 .. k - 1 : ~cpu.keyboard[j]

C2_Step ==
    IsStep /\ IsWaitKey =>
       /\ ret' = "true"
       /\ IF NoKeyPressed
          THEN /\ cpu'.program_counter = PC
               /\ cpu'.data_registers = cpu.data_registers
          ELSE /\ cpu'.program_counter = PC + 2
               /\ cpu'.data_registers =
                     [cpu.data_registers EXCEPT ![WordX] = LowestPressed]

\* C2: a step at a wait-for-key instruction with no key pressed leaves the
\* program counter and every data register as they were; with a key pressed
\* it stores the lowest pressed index in Vx and advances the counter by 2.
C2_WaitForKey == [][C2_Step]_vars

\* wait-for-key into V3 completed with keys 0 and 2 both down, after at
\* least one poll found no key: V3 went from 0xAA to 0
C2_Witness ==
    /\ ret = "true" /\ host = "poll"
    /\ PC = \h204 /\ MemRead(cpu.memory, \h202) = \hF3 /\ MemRead(cpu.memory, \h203) = \h0A
    /\ cpu.keyboard[0] /\ cpu.keyboard[2]
    /\ Reg(3) = 0

----------------------------------------------------------------------------
(* C3, C4: the timers                                                      *)

IsSetDelay == Fetches /\ WordCategory = 15 /\ WordKK = \h15
IsSetSound == Fetches /\ WordCategory = 15 /\ WordKK = \h18

\* The timers as the instruction of this step leaves them, before any tick
DelayAfterInstruction == IF IsSetDelay THEN Reg(WordX) ELSE cpu.delay_timer
SoundAfterInstruction == IF IsSetSound THEN Reg(WordX) ELSE cpu.sound_timer

SaturatingDecrement(t) == IF t > 0 THEN t - 1 ELSE 0

C3_Range == cpu.delay_timer \in 0 .. 255 /\ cpu.sound_timer \in 0 .. 255

C3_Step ==
    Ticked =>
       /\ cpu'.delay_timer = SaturatingDecrement(DelayAfterInstruction)
       /\ cpu'.sound_timer = SaturatingDecrement(SoundAfterInstruction)

\* C3: both timers are always in 0 .. 255; a tick takes 1 from a timer that
\* is above 0 and leaves a timer that is 0 at 0, so a timer at 1 reads 0
\* after one tick and still 0 after the next.
C3_TimerSaturation == [] C3_Range /\ [][C3_Step]_vars

\* The delay timer was set to 1, read back as 0 (so a tick had taken it to
\* 0), and a further tick has just fired with the timer at 0
C3_Witness ==
    /\ Reg(0) = 1 /\ Reg(2) = 0 /\ PC = \h208
    /\ ret = "true" /\ elapsed = 0
    /\ cpu.delay_timer = 0

C4_Step ==
    /\ ~Ticked /\ ~(IsStep /\ IsSetDelay) => cpu'.delay_timer = cpu.delay_timer
    /\ ~Ticked /\ ~(IsStep /\ IsSetSound) => cpu'.sound_timer = cpu.sound_timer
    /\ IsStep =>
          /\ cpu'.delay_timer \in {DelayAfterInstruction, DelayAfterInstruction - 1}
          /\ cpu'.sound_timer \in {SoundAfterInstruction, SoundAfterInstruction - 1}

\* C4: without a tick, only set-delay-timer changes the delay timer and only
\* set-sound-timer changes the sound timer; with a tick, whatever time has
\* passed, a timer ends the step at most 1 below what the instruction left.
C4_TimersChangeOnlyByTickOrSet == [][C4_Step]_vars

\* Both timers were set to 255 and have since gone through a step with a
\* tick and a step without one: exactly 1 is gone from each
C4_Witness ==
    /\ Reg(0) = 255 /\ Reg(1) = 255 /\ PC = \h20A
    /\ ret = "true" /\ elapsed > 0
    /\ cpu.delay_timer = 254 /\ cpu.sound_timer = 254

----------------------------------------------------------------------------
(* C5: draw-sprite twice                                                   *)

\* The instruction is Dxy1 and the one sprite row it reads is 0xFF
IsDrawFF ==
    /\ Fetches /\ WordCategory = 13 /\ WordN = 1
    /\ cpu.i_register + 1 <= \hFFF
    /\ MemRead(cpu.memory, cpu.i_register) = \hFF

\* The 8 pixels the row covers, with the wraparound on both axes
Targets ==
    { <<Reg(WordY) % 32, (Reg(WordX) + i) % 64>> : i \in 0 .. 7 }

C5_Step ==
    IsStep /\ IsDrawFF =>
       /\ ret' = "true"
       /\ Targets \cap cpu.vram = {} =>
             /\ cpu'.data_registers[15] = 0
             /\ cpu'.vram = cpu.vram \cup Targets
       /\ Targets \subseteq cpu.vram =>
             /\ cpu'.data_registers[15] = 1
             /\ cpu'.vram = cpu.vram \ Targets

\* C5: drawing the one-row sprite 0xFF where its 8 pixels are all off sets
\* VF to 0 and turns exactly those pixels on; drawing it where they are all
\* on (as the first draw left them) sets VF to 1 and turns exactly those off,
\* which is the frame buffer from before the first draw.
C5_DrawTwice == [][C5_Step]_vars

\* The second of two draws of 0xFF at (60, 31), wrapped in x, has run: VF is
\* 1 and what is left on the screen is the glyph drawn before them
C5_Witness ==
    /\ ret = "true" /\ PC = \h212
    /\ Reg(0) = 60 /\ Reg(1) = 31 /\ Reg(15) = 1
    /\ draw_calls = 1
    /\ cpu.vram /= {} /\ texture = cpu.vram
    /\ \A i \in 0 .. 7 : ~Pixel(cpu.vram, 31, (60 + i) % 64)

----------------------------------------------------------------------------
(* C6, C7, C8: the ALU flags                                               *)

IsAlu(n) == Fetches /\ WordCategory = 8 /\ WordN = n
IsAddImmediate == Fetches /\ WordCategory = 7

\* Every data register but r, and but VF, is as it was
OthersKept(r) ==
    \A q \in 0 .. 15 : q /= r /\ q /= 15 => cpu'.data_registers[q] = Reg(q)

C6_Step ==
    IsStep =>
       /\ IsAddImmediate =>
             /\ ret' = "true"
             /\ cpu'.data_registers[WordX] = (Reg(WordX) + WordKK) % 256
             /\ WordX /= 15 => cpu'.data_registers[15] = Reg(15)
             /\ OthersKept(WordX)
       /\ IsAlu(4) =>
             /\ ret' = "true"
             /\ cpu'.data_registers[15] = IF Reg(WordX) + Reg(WordY) > 255 THEN 1 ELSE 0
             /\ WordX /= 15 =>
                   cpu'.data_registers[WordX] = (Reg(WordX) + Reg(WordY)) % 256
             /\ OthersKept(WordX)

\* C6: add-immediate and register ADD never panic; 7xkk leaves Vx = (Vx + kk)
\* mod 256 and VF untouched when x is not 0xF; 8xy4 leaves VF = 1 exactly
\* when Vx + Vy exceeded 255, for every x and y, and Vx = (Vx + Vy) mod 256
\* when x is not 0xF.
C6_AddWraps == [][C6_Step]_vars

\* 8F24 has run on VF = 128 and V2 = 128: the sum wrapped to 0 and VF holds
\* the carry, not the sum
C6_Witness ==
    /\ ret = "true" /\ PC = \h206
    /\ MemRead(cpu.memory, \h204) = \h8F /\ MemRead(cpu.memory, \h205) = \h24
    /\ Reg(2) = 128 /\ Reg(15) = 1

C7_Step ==
    IsStep =>
       /\ IsAlu(6) =>
             /\ ret' = "true"
             /\ cpu'.data_registers[15] = Reg(WordX) % 2
             /\ WordX /= 15 => cpu'.data_registers[WordX] = Reg(WordX) \div 2
       /\ IsAlu(14) =>
             /\ ret' = "true"
             /\ cpu'.data_registers[15] = Reg(WordX) \div 128
             /\ WordX /= 15 => cpu'.data_registers[WordX] = (Reg(WordX) * 2) % 256

\* C7: for every x, 0xF included, 8xy6 leaves VF = bit 0 of the old Vx and
\* 8xyE leaves VF = bit 7 of the old Vx; the shift is by one bit and the
\* result is kept to 8 bits.
C7_ShiftFlag == [][C7_Step]_vars

C7_AsCoded_Step ==
    IsStep =>
       /\ IsAlu(6) =>
             /\ ret' = "true"
             /\ cpu'.data_registers[15] = IF WordX = 15 THEN 0 ELSE Reg(WordX) % 2
             /\ WordX /= 15 => cpu'.data_registers[WordX] = Reg(WordX) \div 2
             /\ OthersKept(WordX)
       /\ IsAlu(14) =>
             /\ ret' = "true"
             /\ cpu'.data_registers[15] =
                   IF WordX = 15 THEN 2 * (Reg(15) \div 128) ELSE Reg(WordX) \div 128
             /\ WordX /= 15 => cpu'.data_registers[WordX] = (Reg(WordX) * 2) % 256
             /\ OthersKept(WordX)

\* C7, as the code has it: when x is not 0xF, 8xy6 leaves VF = bit 0 of the
\* old Vx and Vx shifted right by one, and 8xyE leaves VF = bit 7 of the old
\* Vx and Vx doubled modulo 256; when x is 0xF the shift is applied to the
\* flag just written, so 8Fy6 leaves VF = 0 and 8FyE leaves VF = 0 or 2.
C7_ShiftFlagAsCoded == [][C7_AsCoded_Step]_vars

\* 8FF6 has run on VF = 1: the flag reads 0, not bit 0 of the old VF
C7_Witness ==
    /\ ret = "true" /\ PC = \h206
    /\ MemRead(cpu.memory, \h202) = \h6F /\ MemRead(cpu.memory, \h203) = 1
    /\ MemRead(cpu.memory, \h204) = \h8F /\ MemRead(cpu.memory, \h205) = \hF6
    /\ Reg(15) = 0

C8_Step ==
    IsStep =>
       /\ IsAlu(5) =>
             /\ ret' = "true"
             /\ cpu'.data_registers[15] = IF Reg(WordX) >= Reg(WordY) THEN 1 ELSE 0
             /\ WordX /= 15 =>
                   cpu'.data_registers[WordX] = (Reg(WordX) - Reg(WordY)) % 256
             /\ OthersKept(WordX)
       /\ IsAlu(7) =>
             /\ ret' = "true"
             /\ cpu'.data_registers[15] = IF Reg(WordY) >= Reg(WordX) THEN 1 ELSE 0
             /\ WordX /= 15 =>
                   cpu'.data_registers[WordX] = (Reg(WordY) - Reg(WordX)) % 256
             /\ OthersKept(WordX)

\* C8: SUB and SUB-reverse never panic; 8xy5 leaves VF = 1 exactly when
\* Vx >= Vy and 8xy7 leaves VF = 1 exactly when Vy >= Vx, for every x and y;
\* when x is not 0xF, Vx holds the difference modulo 256.
C8_SubNotBorrow == [][C8_Step]_vars

\* 8125 has run on V1 = 1 and V2 = 128: the difference wrapped to 129 and VF
\* reports the borrow as 0
C8_Witness ==
    /\ ret = "true" /\ PC = \h206
    /\ MemRead(cpu.memory, \h204) = \h81 /\ MemRead(cpu.memory, \h205) = \h25
    /\ Reg(1) = 129 /\ Reg(2) = 128 /\ Reg(15) = 0

----------------------------------------------------------------------------
(* C9: program-counter discipline                                          *)

\* The instruction goes to one of the six skip handlers.  Category 5 has no
\* second selector, so every 5xyn is skip-if-registers-equal.
IsSkip ==
    \/ WordCategory \in {3, 4, 5}
    \/ WordCategory = 9 /\ WordN = 0
    \/ WordCategory = 14 /\ WordKK \in {\h9E, \hA1}

SkipCondition ==
    CASE WordCategory = 3 -> Reg(WordX) = WordKK
      [] WordCategory = 4 -> Reg(WordX) /= WordKK
      [] WordCategory = 5 -> Reg(WordX) = Reg(WordY)
      [] WordCategory = 9 -> Reg(WordX) /= Reg(WordY)
      [] WordCategory = 14 /\ WordKK = \h9E -> cpu.keyboard[Reg(WordX)]
      [] WordCategory = 14 /\ WordKK = \hA1 -> ~cpu.keyboard[Reg(WordX)]

\* The instruction touched nothing but the program counter: the timers are
\* left to the tick of the same step, and the renderer is not called
OnlyPCByInstruction ==
    /\ cpu' = [cpu EXCEPT !.program_counter = cpu'.program_counter,
                          !.delay_timer = cpu'.delay_timer,
                          !.sound_timer = cpu'.sound_timer]
    /\ ~Ticked => cpu'.delay_timer = cpu.delay_timer /\ cpu'.sound_timer = cpu.sound_timer
    /\ draw_calls' = 0 /\ texture' = texture

C9_Step ==
    Continued =>
       CASE WordCategory = 1 -> cpu'.program_counter = WordNNN
         [] WordCategory = 11 -> cpu'.program_counter = WordNNN + Reg(0)
         [] WordCategory = 2 \/ Word = \h00EE -> TRUE
         [] IsWaitKey /\ NoKeyPressed -> TRUE
         [] IsSkip ->
              /\ cpu'.program_counter = PC + (IF SkipCondition THEN 4 ELSE 2)
              /\ OnlyPCByInstruction
         [] OTHER -> cpu'.program_counter = PC + 2

\* C9: a step that executes an instruction leaves the program counter at
\* nnn after a jump, at nnn + V0 after a jump-indexed, at old + 4 after a
\* skip whose condition holds, and at old + 2 after every other instruction
\* but call, return and a wait-for-key that found no key; a skip instruction
\* itself changes nothing but the program counter.
C9_ProgramCounter == [][C9_Step]_vars

\* 3005 has run on V0 = 5: the counter is past the skipped 6101, whose
\* register is still 0
C9_Witness ==
    /\ ret = "true" /\ host = "poll" /\ PC = \h206
    /\ MemRead(cpu.memory, \h202) = \h30 /\ MemRead(cpu.memory, \h203) = \h05
    /\ Reg(0) = 5 /\ Reg(1) = 0

----------------------------------------------------------------------------
(* C10: completion                                                         *)

C10_Halted ==
    ret = "false" =>
       /\ PastEnd
       /\ host = "exited"
       /\ \A d \in Deltas : fetch_and_execute(cpu, elapsed, texture, d, 0).ret = "false"

C10_Step ==
    IsStep =>
       /\ PastEnd =>
             /\ ret' = "false"
             /\ cpu' = cpu /\ elapsed' = elapsed
             /\ draw_calls' = 0 /\ texture' = texture
       /\ ~PastEnd => ret' \in {"true", "panic"}
       /\ ret' = "true" => panic' = ""

\* C10: a step taken with the program counter at or past 0x200 + program
\* length returns false and changes no field of the Cpu, does not tick the
\* timers and does not call the renderer, so a further call would return
\* false again; a step that executes an instruction returns true wherever it
\* leaves the program counter.
C10_Completion == [] C10_Halted /\ [][C10_Step]_vars

\* 6005 F015 ran in two short steps and the third call found the program
\* over: the delay timer still holds 5 although more than a period has
\* passed since the last tick
C10_Witness ==
    /\ ret = "false" /\ host = "exited"
    /\ PC = \h204 /\ cpu.program_length = 4
    /\ cpu.delay_timer = 5 /\ elapsed = 2 * ShortDelta

----------------------------------------------------------------------------
(* C11: the program 6005 1200                                              *)

\* The word stored at address a of memory
WordAt(a) == MemRead(cpu.memory, a) * 256 + MemRead(cpu.memory, a + 1)

\* The loaded program is 6005 1200
IsScenario ==
    /\ cpu.program_length = 4
    /\ WordAt(\h200) = \h6005 /\ WordAt(\h202) = \h1200

C11_Inv ==
    IsScenario =>
       /\ PC \in {\h200, \h202}
       /\ ret \in {"none", "true"}
       /\ ret = "true" => Reg(0) = 5

C11_Step ==
    IsScenario /\ IsStep =>
       /\ ret' = "true"
       /\ cpu'.program_counter = IF PC = \h200 THEN \h202 ELSE \h200
       /\ cpu'.data_registers[0] = 5
       /\ IsScenario'

\* C11, amended: 1200 jumps to 0x200, the load instruction.  After the
\* first step of 6005 1200 register 0 is 5 for good; the program counter
\* alternates, 0x202 after every odd step and 0x200 after every even one, so
\* two steps leave it at the load instruction; every step returns true, and
\* the run ends only when the host breaks out of its loop.
C11_Scenario == [] C11_Inv /\ [][C11_Step]_vars

\* Two steps of 6005 1200 have run: register 0 is 5 and the counter is back
\* at 0x200
C11_Witness ==
    /\ IsScenario /\ ret = "true"
    /\ PC = \h200 /\ Reg(0) = 5

C11_AsStated_Step ==
    IsScenario /\ IsStep /\ ret = "true" =>
       /\ ret' = "true"
       /\ cpu'.program_counter = \h202
       /\ cpu'.data_registers[0] = 5

\* C11 as stated: the second step of 6005 1200 and every step after it
\* leaves register 0 at 5 and the program counter at the jump instruction
\* (0x202), and no step reports completion.
C11_ScenarioAsStated == [][C11_AsStated_Step]_vars

----------------------------------------------------------------------------
(* C12: unimplemented opcodes                                              *)

\* The instruction is one of those the claim lists as bound to no handler
UnimplementedWord ==
    \/ WordCategory = 8 /\ WordN \in {8, 9, 10, 11, 12, 13, 15}
    \/ WordCategory = 9 /\ WordN /= 0
    \/ WordCategory = 14 /\ WordKK \notin {\h9E, \hA1}
    \/ WordCategory = 15 /\
          WordKK \notin {\h07, \h0A, \h15, \h18, \h1E, \h29, \h33, \h55, \h65}

\* The 35 handlers of opcode.rs
Handlers ==
    { "opcode_sys", "opcode_cls", "opcode_ret", "opcode_jp_addr", "opcode_call_addr",
      "opcode_se_vx_byte", "opcode_sne_vx_byte", "opcode_se_vx_vy", "opcode_ld_vx_byte",
      "opcode_add_vx_byte", "opcode_ld_vx_vy", "opcode_or_vx_vy", "opcode_and_vx_vy",
      "opcode_xor_vx_vy", "opcode_add_vx_vy", "opcode_sub_vx_vy", "opcode_shr_vx_vy",
      "opcode_subn_vx_vy", "opcode_shl_vx_vy", "opcode_sne_vx_vy", "opcode_ld_i_addr",
      "opcode_jp_v0_addr", "opcode_rnd_vx_byte", "opcode_drw_vx_vy_nibble",
      "opcode_skp_vx", "opcode_sknp_vx", "opcode_ld_vx_dt", "opcode_ld_vx_k",
      "opcode_ld_dt_vx", "opcode_ld_st_vx", "opcode_add_i_vx", "opcode_ld_f_vx",
      "opcode_ld_b_vx", "opcode_ld_i_vx", "opcode_ld_vx_i" }

C12_Step ==
    IsStep /\ Fetches =>
       IF UnimplementedWord
       THEN /\ OpCode_from_u16(Word) \notin Handlers
            /\ ret' = "panic" /\ panic' = MSG_UNIMPLEMENTED
            /\ cpu' = cpu /\ elapsed' = elapsed
            /\ draw_calls' = 0 /\ texture' = texture
       ELSE /\ OpCode_from_u16(Word) \in Handlers
            /\ panic' /= MSG_UNIMPLEMENTED

\* C12: a step at a word 8xyN with N in {8, 9, A, B, C, D, F}, 9xyN with N
\* not 0, ExKK with KK not in {9E, A1} or FxKK with KK not one of the nine
\* bound selectors finds no handler and panics with the unimplemented-opcode
\* message, leaving every field of the Cpu, the clock and the display as they
\* were; a step at any other word is dispatched to one handler and does not
\* end with that panic.
C12_Unimplemented == [][C12_Step]_vars

\* The one-word program 9AB1 has ended the run at its first step with the
\* Cpu as it was loaded
C12_Witness ==
    /\ ret = "panic" /\ panic = MSG_UNIMPLEMENTED
    /\ cpu.program_length = 2 /\ WordAt(\h200) = \h9AB1
    /\ cpu = init_from_buffer(<<\h9A, \hB1>>)

----------------------------------------------------------------------------
(* C13: the SYS class                                                      *)

\* The instruction is 0nnn other than 00E0 and 00EE
IsSys == Fetches /\ WordCategory = 0 /\ Word \notin {\h00E0, \h00EE}

C13_Step ==
    IsStep /\ IsSys => ret' = "panic" /\ panic' = MSG_UNIMPLEMENTED

\* C13: a step at a category-0 word other than 00E0 and 00EE finds no
\* handler and ends the run with the unimplemented-opcode panic.
C13_SysFatal == [][C13_Step]_vars

C13_AsCoded_Step ==
    IsStep /\ IsSys =>
       /\ ret' = "true" /\ panic' = ""
       /\ OpCode_from_u16(Word) = "opcode_sys"
       /\ cpu' = [cpu EXCEPT !.program_counter = PC + 2,
                             !.delay_timer = cpu'.delay_timer,
                             !.sound_timer = cpu'.sound_timer]
       /\ draw_calls' = 0 /\ texture' = texture

\* C13, as the code has it: a category-0 word other than 00E0 and 00EE is
\* bound to the SYS handler, which only advances the program counter by 2;
\* the step returns true and execution continues with the next word.
C13_SysAsCoded == [][C13_AsCoded_Step]_vars

\* The one-word program 0A23 has been stepped over and the run goes on
C13_Witness ==
    /\ ret = "true" /\ panic = ""
    /\ cpu.program_length = 2 /\ WordAt(\h200) = \h0A23
    /\ PC = \h202

----------------------------------------------------------------------------
(* C14: the decoder's fields                                               *)

\* The fields decoded from w are the bits the claim names, and putting them
\* back together gives w
RoundTrip(w) ==
    LET a == OpCodeArgs_from_u16(w)
    IN  /\ a.x = (w \div 256) % 16
        /\ a.y = (w \div 16) % 16
        /\ a.n = w % 16
        /\ a.kk = w % 256
        /\ a.nnn = w % 4096
        /\ BitOr(BitOr(BitOr(BitAnd(w, \hF000), a.x * 256), a.y * 16), a.n) = w
        /\ a.kk = BitOr(a.y * 16, a.n)
        /\ a.nnn = BitOr(a.x * 256, a.kk)

\* Before the first step of a program whose word is 00kk: every word with
\* the low byte kk round-trips.  Over the 256 programs 00kk this is every
\* 16-bit word, each decoded once.
C14_AllWords ==
    host = "step" /\ ret = "none" /\ Fetches /\ Word \div 256 = 0 =>
       \A hi \in 0 .. 255 : RoundTrip(hi * 256 + WordKK)

C14_Step == IsStep /\ Fetches => RoundTrip(Word)

\* C14: for every 16-bit word w the decoder gives x = bits 8-11, y = bits
\* 4-7, n = bits 0-3, kk = bits 0-7 and nnn = bits 0-11; (w & 0xF000) |
\* (x << 8) | (y << 4) | n is w again, kk = (y << 4) | n and nnn = (x << 8) |
\* kk; in particular this holds of the word of every step.
C14_DecoderRoundTrip == [] C14_AllWords /\ [][C14_Step]_vars

\* 6A5C has run: the decoded x = 0xA and kk = 0x5C put 0x5C into VA
C14_Witness ==
    /\ ret = "true" /\ WordAt(\h200) = \h6A5C
    /\ PC = \h202 /\ Reg(10) = \h5C

----------------------------------------------------------------------------
(* C15: the draw flag                                                      *)

IsCls == Fetches /\ Word = \h00E0
IsDraw == Fetches /\ WordCategory = 13

C15_Step ==
    IsStep =>
       /\ Continued =>
             /\ draw_calls' = IF IsCls \/ IsDraw THEN 1 ELSE 0
             /\ IsCls => texture' = {}
             /\ IsDraw => texture' = cpu'.vram
       /\ ~Continued => draw_calls' = 0
       /\ draw_calls' = 0 => texture' = texture

\* C15: the draw flag is false in every state between steps; a step that
\* returns true calls the renderer once if its instruction was 00E0 or a
\* Dxyn (n = 0 included) and not at all otherwise, and the renderer copies
\* the frame buffer as the instruction left it; a step that does not return
\* true does not call it; without a call the texture is unchanged.
C15_DrawFlag == [] (cpu.draw_flag = FALSE) /\ [][C15_Step]_vars

\* The zero-row draw D120 at 0x22A has run over the sprites already on the
\* screen: the renderer was called once and the texture shows them
C15_Witness ==
    /\ ret = "true" /\ PC = \h22C /\ WordAt(\h22A) = \hD120
    /\ draw_calls = 1 /\ ~cpu.draw_flag
    /\ cpu.vram /= {} /\ texture = cpu.vram

----------------------------------------------------------------------------
(* C16: the load                                                           *)

\* The load has just produced a Cpu and no step has run; the load panicked
JustLoaded == ret = "none"
LoadFailed == ret = "panic" /\ panic = MSG_TOO_BIG

\* The Cpu is what the claim says a successful load of some image leaves
C16_Loaded ==
    /\ cpu.program_length <= \hFFF - \h200
    /\ PC = \h200 /\ cpu.i_register = 0 /\ cpu.stack_pointer = 0
    /\ cpu.delay_timer = 0 /\ cpu.sound_timer = 0
    /\ \A r \in 0 .. 15 : Reg(r) = 0
    /\ cpu.vram = {} /\ ~cpu.draw_flag
    /\ \A k \in 0 .. 15 : ~cpu.keyboard[k]
    /\ \E buf \in LoadImages :
          /\ Len(buf) = cpu.program_length
          /\ \A i \in 0 .. Len(buf) - 1 : MemRead(cpu.memory, \h200 + i) = buf[i + 1]
    /\ \A a \in 0 .. \h4F : MemRead(cpu.memory, a) = FONT_SET[a + 1]
    /\ \A a \in 0 .. \hFFE :
          a \in \h50 .. \h1FF \/ a >= \h200 + cpu.program_length
             => MemRead(cpu.memory, a) = 0

\* The load goes through exactly for the images of at most 0xFFF - 0x200 bytes
C16_Exactly ==
    \A buf \in LoadImages :
        IsPanic(init_from_buffer(buf)) <=> Len(buf) > \hFFF - \h200

C16_AsCoded_Inv ==
    /\ C16_Exactly
    /\ JustLoaded => C16_Loaded
    /\ LoadFailed => cpu = None /\ host = "exited"

\* C16, as the code has it: an image of at most 0xFFF - 0x200 bytes loads,
\* leaving PC = 0x200, registers, timers, stack pointer and I at 0, screen
\* and keys all false, the image at 0x200, the font at 0x000 .. 0x04F and 0
\* everywhere else; a longer image makes the load panic with "Program file
\* too big to fit into system memory", which ends the run with no Cpu.
C16_LoadAsCoded == [] C16_AsCoded_Inv

\* The image one byte too long has ended the run in the load
C16_Witness ==
    /\ LoadFailed /\ host = "exited"
    /\ cpu = None

C16_AsStated_Inv ==
    /\ JustLoaded => C16_Loaded
    /\ \A buf \in LoadImages :
          Len(buf) <= \hFFF - \h200 <=> ~IsPanic(init_from_buffer(buf))
    /\ panic /= MSG_TOO_BIG

\* C16: the load succeeds exactly for the images of at most 0xFFF - 0x200
\* bytes, with the state the claim lists; a longer image is turned down with
\* an error value handed to the caller, so no load ends in a panic.
C16_LoadBounds == [] C16_AsStated_Inv

----------------------------------------------------------------------------
(* C17: memory indices                                                     *)

IsStoreBcd == Fetches /\ WordCategory = 15 /\ WordKK = \h33
IsStoreRegs == Fetches /\ WordCategory = 15 /\ WordKK = \h55
IsLoadRegs == Fetches /\ WordCategory = 15 /\ WordKK = \h65

\* The memory indices the claim lists for the step about to run
UsedIndices ==
    IF PastEnd THEN {}
    ELSE {PC, PC + 1} \cup
         ( CASE IsDraw -> cpu.i_register .. cpu.i_register + WordN - 1
             [] IsStoreBcd -> cpu.i_register .. cpu.i_register + 2
             [] IsStoreRegs \/ IsLoadRegs -> cpu.i_register .. cpu.i_register + WordX
             [] OTHER -> {} )

C17_Step == IsStep => UsedIndices \subseteq 0 .. \hFFE

\* C17: every memory index a step uses, for the fetch at PC and PC + 1, for
\* the sprite rows at I .. I + n - 1, for store-bcd at I .. I + 2 and for
\* store-registers and load-registers at I .. I + x, is in 0x000 .. 0xFFE.
C17_IndicesInRange == [][C17_Step]_vars

\* The draw takes the slice memory[I .. I + n], which must end inside the
\* array even when it is empty
SliceOutOfRange == IsDraw /\ cpu.i_register + WordN > \hFFF
KeyOutOfRange ==
    Fetches /\ WordCategory = 14 /\ WordKK \in {\h9E, \hA1} /\ Reg(WordX) >= 16

C17_AsCoded_Step ==
    IsStep =>
       /\ ~(UsedIndices \subseteq 0 .. \hFFE) \/ SliceOutOfRange =>
             /\ ret' = "panic"
             /\ panic' = IF ~SliceOutOfRange THEN MSG_INDEX
                          ELSE IF cpu.i_register > \hFFF THEN MSG_SLICE_START
                          ELSE MSG_SLICE_END
             /\ cpu'.program_counter = PC
             /\ ~IsLoadRegs => cpu'.data_registers = cpu.data_registers
             /\ ~(IsStoreBcd \/ IsStoreRegs) => cpu'.memory = cpu.memory
       /\ UsedIndices \subseteq 0 .. \hFFE /\ ~SliceOutOfRange /\ ~KeyOutOfRange =>
             panic' \notin {MSG_INDEX, MSG_SLICE_START, MSG_SLICE_END}

\* C17, as the code has it: nothing keeps PC + 1 or I within the array.  A
\* step for which one of the listed indices is past 0xFFE, or whose sprite
\* slice ends past the array, panics at the first such access, after the
\* accesses before it, with an index-out-of-bounds error for an index and a
\* range-start or range-end error for the slice; memory itself never holds a
\* cell outside 0x000 .. 0xFFE; and a step whose indices are all in range
\* does not panic on a memory index or slice.
C17_IndicesAsCoded ==
    [] (DOMAIN cpu.memory \subseteq 0 .. \hFFE) /\ [][C17_AsCoded_Step]_vars

\* store-bcd of 254 with I = 0xFFD wrote 2 and 5 at 0xFFD and 0xFFE and
\* panicked on the index 0xFFF
C17_Witness ==
    /\ ret = "panic" /\ panic = MSG_INDEX
    /\ cpu.i_register = \hFFD /\ WordAt(PC) = \hF033
    /\ MemRead(cpu.memory, \hFFD) = 2 /\ MemRead(cpu.memory, \hFFE) = 5

----------------------------------------------------------------------------
(* C18: alignment of the program counter                                   *)

C18_Aligned_Inv == (PC - \h200) % 2 = 0

\* C18: in every reachable state PC - 0x200 is even.
C18_Aligned == [] C18_Aligned_Inv

\* PC and every return address on the stack are even
EvenControl ==
    /\ C18_Aligned_Inv
    /\ \A i \in 0 .. cpu.stack_pointer - 1 : cpu.stack[i] % 2 = 0

\* The step about to run is a jump, call or jump-indexed to an odd address
OddTarget ==
    /\ Fetches
    /\ \/ WordCategory \in {1, 2} /\ WordNNN % 2 = 1
       \/ WordCategory = 11 /\ (WordNNN + Reg(0)) % 2 = 1

C18_Step ==
    /\ ~Continued => cpu'.program_counter = PC
    /\ Continued =>
          CASE WordCategory \in {1, 2} -> cpu'.program_counter = WordNNN
            [] WordCategory = 11 -> cpu'.program_counter = WordNNN + Reg(0)
            [] Word = \h00EE ->
                 cpu'.program_counter = cpu.stack[cpu.stack_pointer - 1] + 2
            [] OTHER -> cpu'.program_counter \in {PC, PC + 2, PC + 4}
    /\ EvenControl /\ ~(Continued /\ OddTarget) => EvenControl'

\* C18, amended: a jump or a call leaves PC at nnn and a jump-indexed at
\* nnn + V0, whatever the parity of that address; a return leaves PC at the
\* address of its call plus 2, so with the parity of its call site, whatever
\* the parity of PC at the return; every other step moves PC by 0, 2 or 4,
\* and a step that fails or halts, and a poll, leave it where it was.  The
\* load leaves PC and the return addresses on the stack even, and they stay
\* even over every transition but a jump, call or jump-indexed to an odd
\* address: PC - 0x200 is even in every state reached before the first of
\* those.
C18_Alignment == [] (JustLoaded => EvenControl) /\ [][C18_Step]_vars

\* 1203 jumped into the middle of a word and the 6005 found at 0x203 has
\* run: PC is 0x205
C18_Witness ==
    /\ ret = "true" /\ WordAt(\h200) = \h1203
    /\ PC = \h205 /\ Reg(0) = 5

----------------------------------------------------------------------------
(* C19: call and return                                                    *)

\* The instruction touched nothing but the program counter, the stack
\* pointer and the stack: the timers are left to the tick of the same step,
\* and the renderer is not called
OnlyControlByInstruction ==
    /\ cpu' = [cpu EXCEPT !.program_counter = cpu'.program_counter,
                          !.stack_pointer = cpu'.stack_pointer,
                          !.stack = cpu'.stack,
                          !.delay_timer = cpu'.delay_timer,
                          !.sound_timer = cpu'.sound_timer]
    /\ ~Ticked => cpu'.delay_timer = cpu.delay_timer /\ cpu'.sound_timer = cpu.sound_timer
    /\ draw_calls' = 0 /\ texture' = texture

C19_Step ==
    /\ Continued /\ IsCall =>
          /\ cpu'.stack = [cpu.stack EXCEPT ![cpu.stack_pointer] = PC]
          /\ cpu'.stack_pointer = cpu.stack_pointer + 1
          /\ cpu'.program_counter = WordNNN
          /\ OnlyControlByInstruction
    /\ Continued /\ IsRet =>
          /\ cpu'.stack = cpu.stack
          /\ cpu'.stack_pointer = cpu.stack_pointer - 1
          /\ cpu'.program_counter = cpu.stack[cpu.stack_pointer - 1] + 2
          /\ OnlyControlByInstruction
    /\ ~(Continued /\ IsCall) =>
          /\ cpu'.stack = cpu.stack
          /\ ~(Continued /\ IsRet) => cpu'.stack_pointer = cpu.stack_pointer

\* C19: a call at address a with s < 16 entries pushed stores a itself at
\* stack[s], makes the stack pointer s + 1 and PC = nnn; a return with s + 1
\* entries pushed makes the stack pointer s and PC = stack[s] + 2; neither
\* changes anything else of the Cpu, and nothing but a call writes the stack
\* and nothing but a call or a return moves the stack pointer, so each return
\* resumes after its matching call.
C19_CallReturn == [][C19_Step]_vars

\* Calls from 0x200 and from 0x204 have both returned, the inner one first:
\* the run has got to the word after the outer call
C19_Witness ==
    /\ ret = "true" /\ PC = \h202 /\ cpu.stack_pointer = 0
    /\ cpu.stack[0] = \h200 /\ cpu.stack[1] = \h204

----------------------------------------------------------------------------
(* C20: draw sprite                                                        *)

\* Bit i, counted from the most significant, of sprite row j
SpriteBit(j, i) == (MemRead(cpu.memory, cpu.i_register + j) \div 2 ^ (7 - i)) % 2 = 1

\* The pixels <<y, x>> that the set bits of the sprite of this draw fall on
SpritePixels ==
    { <<(Reg(WordY) + p[1]) % 32, (Reg(WordX) + p[2]) % 64>> :
        p \in { q \in (0 .. WordN - 1) \X (0 .. 7) : SpriteBit(q[1], q[2]) } }

C20_Step ==
    /\ Continued /\ IsDraw =>
          /\ cpu'.vram = (cpu.vram \ SpritePixels) \cup (SpritePixels \ cpu.vram)
          /\ cpu'.data_registers[15] = IF SpritePixels \cap cpu.vram /= {} THEN 1 ELSE 0
          /\ \A r \in 0 .. 14 : cpu'.data_registers[r] = cpu.data_registers[r]
          /\ cpu'.memory = cpu.memory
          /\ cpu'.i_register = cpu.i_register
          /\ draw_calls' = 1 /\ texture' = cpu'.vram /\ cpu'.draw_flag = FALSE
    /\ cpu'.vram /= cpu.vram => Continued /\ (IsDraw \/ IsCls)
    /\ Continued /\ IsCls => cpu'.vram = BlankScreen

\* C20: a draw Dxyn toggles exactly the pixels ((Vx + i) mod 64,
\* (Vy + j) mod 32) of the set bits (row j, column i from the most
\* significant bit) of memory[I .. I + n - 1]; VF becomes 1 iff one of those
\* pixels was on before, else 0; the frame is handed to the renderer; memory,
\* I and the registers other than VF keep their values; and no transition
\* other than a draw or a clear-screen changes a pixel.
C20_DrawSprite == [][C20_Step]_vars

\* An 0xFF row drawn at (5, 6) over the digit-0 glyph drawn there before:
\* the glyph's four lit pixels of that row went off, the next four came on,
\* the row below is untouched, and VF reports the collision
C20_Witness ==
    /\ ret = "true" /\ PC = \h210 /\ WordAt(\h20E) = \hD011
    /\ Reg(0) = 5 /\ Reg(1) = 6 /\ Reg(15) = 1
    /\ ~Pixel(cpu.vram, 6, 5) /\ ~Pixel(cpu.vram, 6, 8)
    /\ Pixel(cpu.vram, 6, 9) /\ Pixel(cpu.vram, 6, 12)
    /\ Pixel(cpu.vram, 7, 5) /\ Pixel(cpu.vram, 7, 8)
    /\ draw_calls = 1 /\ texture = cpu.vram

----------------------------------------------------------------------------
(* C21: add to the address register                                        *)

IsAddIndex == Fetches /\ WordCategory = 15 /\ WordKK = \h1E

C21_Step ==
    Continued /\ IsAddIndex =>
        /\ cpu'.i_register = (cpu.i_register + Reg(WordX)) % 65536
        /\ cpu'.data_registers[15] = IF cpu.i_register + Reg(WordX) > 65535 THEN 1 ELSE 0

\* C21: the address register holds a 16-bit value in every state, and Fx1E
\* leaves it at (I + Vx) mod 2^16 with VF = 1 iff I + Vx was above 0xFFFF,
\* else VF = 0.
C21_AddIndex == [] (cpu.i_register \in 0 .. 65535) /\ [][C21_Step]_vars

C21_AsCoded_Step ==
    Continued /\ IsAddIndex =>
        /\ cpu'.i_register = cpu.i_register + Reg(WordX)
        /\ cpu'.data_registers[15] = 0

\* C21 as the code has it: i_register is a usize, Fx1E leaves it at I + Vx
\* with no wrap at 16 bits, and VF at 0, for every sum the run reaches.
C21_AddIndexAsCoded == [][C21_AsCoded_Step]_vars

\* The 241st ADD I, V0 from I = 0xFFF with V0 = 0xFF has run: I is
\* 0xFFF + 241 * 0xFF = 0x1000E, which 16 bits cannot hold, and VF is 0
C21_Witness ==
    /\ ret = "true" /\ WordAt(PC - 2) = \hF01E
    /\ cpu.i_register = \h1000E /\ Reg(0) = \hFF /\ Reg(15) = 0

----------------------------------------------------------------------------
(* C22: the key tests                                                      *)

IsSkp == Fetches /\ WordCategory = 14 /\ WordKK = \h9E
IsSknp == Fetches /\ WordCategory = 14 /\ WordKK = \hA1

\* The step returned true with PC moved on by 4 when skip holds, else by 2
SkippedIf(skip) ==
    /\ ret' = "true"
    /\ cpu'.program_counter = PC + (IF skip THEN 4 ELSE 2)

C22_Step ==
    IsStep =>
        /\ cpu'.keyboard = cpu.keyboard
        /\ IsSkp => ret' = "true" /\ SkippedIf(cpu.keyboard[Reg(WordX)])
        /\ IsSknp => ret' = "true" /\ SkippedIf(~cpu.keyboard[Reg(WordX)])

\* C22: whatever Vx holds, Ex9E moves PC on by 4 if key_state[Vx] is true
\* and by 2 otherwise, ExA1 the other way round, and neither fails; no step
\* writes key_state.
C22_KeyTests == [][C22_Step]_vars

C22_AsCoded_Step ==
    IsStep =>
        /\ cpu'.keyboard = cpu.keyboard
        /\ IsSkp /\ Reg(WordX) < 16 => SkippedIf(cpu.keyboard[Reg(WordX)])
        /\ IsSknp /\ Reg(WordX) < 16 => SkippedIf(~cpu.keyboard[Reg(WordX)])
        /\ (IsSkp \/ IsSknp) /\ Reg(WordX) >= 16 =>
              /\ ret' = "panic" /\ panic' = MSG_INDEX
              /\ cpu' = cpu

\* C22 as the code has it: the key tests skip as stated when Vx is a key
\* number 0 .. 15 and fail with an index panic, the Cpu untouched, when Vx is
\* 16 or more; no step writes key_state.
C22_KeyTestsAsCoded == [][C22_AsCoded_Step]_vars

\* SKP V0 with V0 = 16 has ended the run in the index panic
C22_Witness ==
    /\ ret = "panic" /\ panic = MSG_INDEX /\ host = "exited"
    /\ PC = \h202 /\ WordAt(\h202) = \hE09E /\ Reg(0) = 16

----------------------------------------------------------------------------
(* C23: store-bcd                                                          *)

\* memory changed at most in the cells of S
MemorySameOutside(S) ==
    \A a \in (DOMAIN cpu.memory \cup DOMAIN cpu'.memory) \ S :
        MemRead(cpu'.memory, a) = MemRead(cpu.memory, a)

C23_Step ==
    Continued /\ IsStoreBcd =>
        LET v == Reg(WordX)
            I == cpu.i_register
            h == MemRead(cpu'.memory, I)
            t == MemRead(cpu'.memory, I + 1)
            o == MemRead(cpu'.memory, I + 2)
        IN  /\ h = v \div 100 /\ t = (v \div 10) % 10 /\ o = v % 10
            /\ 100 * h + 10 * t + o = v
            /\ {h, t, o} \subseteq 0 .. 9
            /\ MemorySameOutside(I .. I + 2)
            /\ cpu'.i_register = I
            /\ cpu'.data_registers = cpu.data_registers

\* C23: after Fx33 with Vx = v, memory[I], memory[I + 1] and memory[I + 2]
\* are v div 100, (v div 10) mod 10 and v mod 10, decimal digits whose value
\* is v; I, every register and every other memory byte are as before.
C23_StoreBcd == [][C23_Step]_vars

\* 255 has been stored as 2, 5, 5 at 0x300
C23_Witness ==
    /\ ret = "true" /\ PC = \h206 /\ WordAt(\h204) = \hF233 /\ Reg(2) = 255
    /\ cpu.i_register = \h300
    /\ MemRead(cpu.memory, \h300) = 2 /\ MemRead(cpu.memory, \h301) = 5
    /\ MemRead(cpu.memory, \h302) = 5

----------------------------------------------------------------------------
(* C24: store-registers and load-registers                                 *)

\* The registers after Fx55 and then Fx65 are run on the Cpu as it is now,
\* both with the arguments of the word about to run
RegistersAfterStoreThenLoad ==
    LET args == OpCodeArgs_from_u16(Word)
    IN  opcode_ld_vx_i(args, opcode_ld_i_vx(args, cpu)).data_registers

C24_Step ==
    /\ Continued /\ IsStoreRegs =>
          /\ \A i \in 0 .. WordX : MemRead(cpu'.memory, cpu.i_register + i) = Reg(i)
          /\ MemorySameOutside(cpu.i_register .. cpu.i_register + WordX)
          /\ cpu'.data_registers = cpu.data_registers
          /\ cpu'.i_register = cpu.i_register
          /\ RegistersAfterStoreThenLoad = cpu.data_registers
    /\ Continued /\ IsLoadRegs =>
          /\ \A i \in 0 .. WordX :
                cpu'.data_registers[i] = MemRead(cpu.memory, cpu.i_register + i)
          /\ \A r \in WordX + 1 .. 15 : cpu'.data_registers[r] = cpu.data_registers[r]
          /\ cpu'.memory = cpu.memory
          /\ cpu'.i_register = cpu.i_register

\* C24: Fx55 makes memory[I + i] = Vi for every i in 0 .. x and changes no
\* other memory byte and no register; Fx65 makes Vi = memory[I + i] for every
\* i in 0 .. x and changes no register above x and no memory; neither changes
\* I; and Fx65 run after Fx55 with the same x and I leaves every register as
\* it was before the Fx55.
C24_RegisterCopy == [][C24_Step]_vars

\* F255 and then F265 have run with I = 0x300: V0 .. V2 are in memory and are
\* still what the program set
C24_Witness ==
    /\ ret = "true" /\ PC = \h20E
    /\ WordAt(\h20A) = \hF255 /\ WordAt(\h20C) = \hF265
    /\ cpu.i_register = \h300
    /\ MemRead(cpu.memory, \h300) = \h11 /\ MemRead(cpu.memory, \h301) = \h22
    /\ MemRead(cpu.memory, \h302) = \h33 /\ MemRead(cpu.memory, \h303) = 0
    /\ Reg(0) = \h11 /\ Reg(1) = \h22 /\ Reg(2) = \h33 /\ Reg(15) = \h44

----------------------------------------------------------------------------
(* C25: the address of a font glyph                                        *)

IsLoadFont == Fetches /\ WordCategory = 15 /\ WordKK = \h29

\* The font table is in memory at 0x000 .. 0x04F as the load put it
FontInPlace(memory) == \A a \in 0 .. \h4F : MemRead(memory, a) = FONT_SET[a + 1]

\* Row k (0 .. 4) of the built-in glyph of digit d
GlyphRow(d, k) == FONT_SET[5 * d + k + 1]

C25_Step ==
    /\ Continued /\ IsLoadFont =>
          /\ cpu'.i_register = Reg(WordX) * 5
          /\ Reg(WordX) \in 0 .. 15 =>
                /\ cpu'.i_register + 4 <= \h4F
                /\ FontInPlace(cpu.memory) =>
                      \A k \in 0 .. 4 :
                          MemRead(cpu'.memory, cpu'.i_register + k) = GlyphRow(Reg(WordX), k)
    /\ cpu'.memory /= cpu.memory => IsStep /\ (IsStoreBcd \/ IsStoreRegs)

\* C25: the load leaves the font table at 0x000 .. 0x04F; Fx29 sets
\* I = Vx * 5; for a digit Vx in 0x0 .. 0xF that is at most 0x4F - 4, and
\* while the font table is still in place memory[I .. I + 4] is the glyph of
\* digit Vx; only store-bcd and store-registers ever write memory.
C25_FontAddress == [] (JustLoaded => FontInPlace(cpu.memory)) /\ [][C25_Step]_vars

\* Fx29 has run with V3 = 0xF: I is 75 and the five bytes there are the
\* glyph of F
C25_Witness ==
    /\ ret = "true" /\ PC = \h204 /\ WordAt(\h202) = \hF329 /\ Reg(3) = 15
    /\ cpu.i_register = 75
    /\ <<MemRead(cpu.memory, 75), MemRead(cpu.memory, 76), MemRead(cpu.memory, 77),
         MemRead(cpu.memory, 78), MemRead(cpu.memory, 79)>>
           = <<\hF0, \h80, \hF0, \h80, \h80>>

----------------------------------------------------------------------------
(* C26: the host loop                                                      *)

\* The positions of evs at which the host stops: a quit or Escape going down
StopEvents(evs) ==
    { i \in 1 .. Len(evs) :
        \/ evs[i].type = "Quit"
        \/ evs[i].type = "KeyDown" /\ evs[i].key = "Escape" }

\* How many events of evs the host hands to the keyboard
Handled(evs) ==
    IF StopEvents(evs) = {} THEN Len(evs)
    ELSE (CHOOSE i \in StopEvents(evs) : \A j \in StopEvents(evs) : i <= j) - 1

\* key_state after the first n events of evs: each key is as its last event
\* among them left it
KeysAfter(keys, evs, n) ==
    [k \in 0 .. 15 |->
        LET T == { i \in 1 .. n : /\ evs[i].type \in {"KeyDown", "KeyUp"}
                                  /\ KeyIndex(evs[i].key) = k }
        IN  IF T = {} THEN keys[k]
            ELSE evs[CHOOSE i \in T : \A j \in T : j <= i].type = "KeyDown"]

\* What a drain of evs must leave: stopped or not, and key_state
DrainOutcome(evs) ==
    [break |-> StopEvents(evs) /= {},
     keys |-> KeysAfter(cpu.keyboard, evs, Handled(evs))]

C26_Drain ==
    host = "poll" =>
        /\ ret = "true"
        /\ \A evs \in EventSeqs : PollLoop(cpu.keyboard, evs, 1) = DrainOutcome(evs)

C26_Step ==
    /\ host /= "exited"
    /\ host = "step" =>
          /\ host' = IF ret' = "true" THEN "poll" ELSE "exited"
          /\ cpu'.keyboard = cpu.keyboard
    /\ host = "poll" =>
          /\ cpu' = [cpu EXCEPT !.keyboard = cpu'.keyboard]
          /\ UNCHANGED <<elapsed, ret, panic, draw_calls, texture>>
          /\ \E evs \in EventSeqs :
                /\ cpu'.keyboard = DrainOutcome(evs).keys
                /\ host' = IF DrainOutcome(evs).break THEN "exited" ELSE "step"

\* C26: the host takes one step, then one drain of the pending events, and
\* so on in turn; a step does not write key_state and a drain writes nothing
\* else; a drain hands the events before the first quit or Escape to the
\* keyboard, and after a quit or Escape, or a step that did not return true,
\* the host takes no step again.
C26_HostLoop == [] C26_Drain /\ [][C26_Step]_vars

\* The host left the loop on a quit or Escape that came after key X went
\* down: the last step had returned true
C26_Witness ==
    /\ host = "exited" /\ ret = "true"
    /\ cpu.keyboard[0] /\ ~cpu.keyboard[2]

----------------------------------------------------------------------------
(* C27: the stall of wait-for-key                                          *)

IsJump == Fetches /\ WordCategory = 1
IsJumpIndexed == Fetches /\ WordCategory = 11

\* The addresses at which the programs of the run hold a wait-for-key
WaitKeyAddresses == {\h202, \h204}

\* A step is about to run the wait-for-key at address a with a key down
WaitingWithKeyDown(a) == host = "step" /\ PC = a /\ IsWaitKey /\ ~NoKeyPressed

\* While the host keeps stepping, a wait-for-key met by a step with a key
\* down is passed
C27_Released == \A a \in WaitKeyAddresses : WaitingWithKeyDown(a) ~> (PC = a + 2)

C27_Step ==
    Continued /\ cpu'.program_counter = PC =>
        IsWaitKey \/ IsJump \/ IsJumpIndexed

\* C27: while the host keeps stepping, a wait-for-key that a step meets with
\* a key down is passed; and a step that returns true leaves PC where it was
\* only at a wait-for-key, a jump or a jump-indexed.
C27_OnlyStall == C27_Released /\ [][C27_Step]_vars

C27_Amended_Step ==
    Continued /\ cpu'.program_counter = PC =>
        \/ IsWaitKey /\ NoKeyPressed
        \/ IsJump /\ WordNNN = PC
        \/ IsJumpIndexed /\ WordNNN + Reg(0) = PC
        \/ IsCall /\ WordNNN = PC
        \/ IsRet /\ cpu.stack[cpu.stack_pointer - 1] + 2 = PC

\* C27 amended: while the host keeps stepping, a wait-for-key that a step
\* meets with a key down is passed; and a step that returns true leaves PC
\* where it was only at a wait-for-key with no key down, a jump or
\* jump-indexed to its own address, a call of its own address, or a return
\* whose matching call was in the word before it.
C27_OnlyStallAmended == C27_Released /\ [][C27_Amended_Step]_vars

\* The wait-for-key into VF at 0x204 was passed with key 2 alone down
C27_Witness ==
    /\ ret = "true" /\ PC = \h206 /\ WordAt(\h204) = \hFF0A
    /\ cpu.keyboard[2] /\ ~cpu.keyboard[0] /\ Reg(15) = 2

====
